---------------------------- MODULE Spec2Model ----------------------------
(***************************************************************************)
(* A model of the stocks-data pipeline: the merger (data_merger.py), the   *)
(* validator (data_validator.py), the metadata store                       *)
(* (metadata_manager.py), the retry orchestrator and failure ledger        *)
(* (retry_manager.py) and the synchronisation scripts (scripts/*.py).      *)
(*                                                                         *)
(* A DataFrame is a record [none, cols, rows]: none is Python's None, cols *)
(* the set of column names, rows the rows in frame order.  A row is a      *)
(* record with its index value ts (the timestamp) and one field per        *)
(* column.                                                                 *)
(***************************************************************************)
EXTENDS Integers, Sequences, FiniteSets, TLC

VARIABLES
    existing_df,    \* merge_data: the existing_df argument
    new_df,         \* merge_data: the new_df argument
    merged_df,      \* merge_data: the returned frame
    mpc,            \* merge harness: "args" before the call, "returned" after
    r_pc,           \* retry_with_backoff: "idle", "loop", "returned", "raised"
    r_args,         \* retry_with_backoff: its arguments
    r_attempt,      \* retry_with_backoff: the loop variable attempt
    r_delay,        \* retry_with_backoff: the local delay
    r_last_exception, \* retry_with_backoff: the local last_exception
    r_sleeps,       \* the time.sleep calls made so far, in order
    r_outcomes,     \* what func did on each call so far: "ok" or "fail"
    r_result,       \* the value retry_with_backoff returned
    r_cause,        \* the __cause__ of the RetryError it raised
    report,         \* a ValidationReport
    v_args,         \* validate_dataframe: its arguments df, interval, auto_fix
    validated_df,   \* validate_dataframe: the returned frame
    v_pc,           \* "new": constructed; "added": add_issue was called on
                    \* it; "args": validate_dataframe is being called;
                    \* "validated": returned by validate_dataframe
    failure_log,    \* the file download_failures.json: [exists, content,
                    \* valid_json]
    failures,       \* self.failures of each RetryManager
    constructed,    \* whether each RetryManager has been constructed
    w_pc,           \* each worker in log_failure: "idle", or "save" between
                    \* the append and _save_failures, or "alert" between
                    \* _save_failures and the alert callback, or "raised"
    w_entry,        \* each worker's failure_entry
    w_alert,        \* what the alert callback did in each worker's last
                    \* log_failure: "none", "sent" or "raised"
    now,            \* datetime.now(), a tick per log_failure
    logged,         \* the entries whose log_failure has returned
    csv_file,       \* the entity's series file <interval>.csv: [exists, df]
    backups,        \* the .bak copies save_data has made, oldest first
    meta_file,      \* the entity's metadata file: [state, data], state
                    \* "absent", "ok" or "partial" (a cut-off JSON document)
    committed,      \* the metadata of the last _save_metadata that completed
    clock,          \* datetime.now() as the metadata store reads it, in ticks
    attempts,       \* the number of pipeline runs so far
    p_last,         \* the last pipeline run: what it was and how it ended
    g_file,         \* identify_gaps: the series file it reads
    g_gaps,         \* identify_gaps: the list it returned
    g_pc,           \* gap harness: "args" before the call, "identified" after
    b_config,       \* DailyUpdater.run: the configured stocks, indices, intervals
    b_date,         \* DailyUpdater.run: its specific_date argument
    b_pc,           \* DailyUpdater.run: "start", "stocks", "indices", "done"
    b_done,         \* DailyUpdater.run: the update_symbol calls made, in order
    b_stats,        \* DailyUpdater.stats
    h_all,          \* every history entry appended to the metadata file, in order
    call_args,      \* a single call of a function: its arguments
    call_result,    \* a single call of a function: what it returned
    call_pc,        \* a single call of a function: "args", then "returned"
    f_time,         \* time.time(), in ticks
    last_request_time,  \* DataFetcher.last_request_time
    f_pc,           \* each worker in fetch_data: "idle", "read" at the start
                    \* of _apply_rate_limit, "sleeping", "stamp" before the
                    \* assignment of last_request_time, "request" before
                    \* ticker.history
    f_wake,         \* the time each worker's time.sleep ends
    f_passed        \* the times at which a worker left _apply_rate_limit and
                    \* went on to its provider request, in order

mergeVars == <<existing_df, new_df, merged_df, mpc>>

retryVars == <<r_pc, r_args, r_attempt, r_delay, r_last_exception, r_sleeps,
               r_outcomes, r_result, r_cause>>

reportVars == <<report, v_args, validated_df, v_pc>>

ledgerVars == <<failure_log, failures, constructed, w_pc, w_entry, w_alert, now,
               logged>>

syncVars == <<csv_file, backups, meta_file, committed, clock, attempts, p_last>>

gapVars == <<g_file, g_gaps, g_pc>>

batchVars == <<b_config, b_date, b_pc, b_done, b_stats>>

histVars == <<h_all>>

callVars == <<call_args, call_result, call_pc>>

gateVars == <<f_time, last_request_time, f_pc, f_wake, f_passed>>

vars == <<existing_df, new_df, merged_df, mpc,
          r_pc, r_args, r_attempt, r_delay, r_last_exception, r_sleeps,
          r_outcomes, r_result, r_cause,
          report, v_args, validated_df, v_pc,
          failure_log, failures, constructed, w_pc, w_entry, w_alert, now, logged,
          csv_file, backups, meta_file, committed, clock, attempts, p_last,
          g_file, g_gaps, g_pc,
          b_config, b_date, b_pc, b_done, b_stats, h_all,
          call_args, call_result, call_pc,
          f_time, last_request_time, f_pc, f_wake, f_passed>>

\* an action of one component leaves the other components alone
otherVars == <<gapVars, batchVars, histVars, callVars, gateVars>>

MergeOnly == UNCHANGED <<retryVars, reportVars, ledgerVars, syncVars, otherVars>>

RetryOnly == UNCHANGED <<mergeVars, reportVars, ledgerVars, syncVars, otherVars>>

ReportOnly == UNCHANGED <<mergeVars, retryVars, ledgerVars, syncVars, otherVars>>

LedgerOnly == UNCHANGED <<mergeVars, retryVars, reportVars, syncVars, otherVars>>

\* a pipeline run uses the stores and manager 1's ledger
SyncOnly ==
    UNCHANGED <<mergeVars, retryVars, reportVars, otherVars, constructed, w_pc, w_entry,
                w_alert>>

GapOnly ==
    UNCHANGED <<mergeVars, retryVars, reportVars, ledgerVars, syncVars,
                batchVars, histVars, callVars, gateVars>>

---------------------------------------------------------------------------
(* Bounds of the model *)

\* the merge harness draws existing_df and new_df with at most MaxRows rows
\* between them
MaxRows == 3

\* the merge harness draws timestamps from 1..MaxTs
MaxTs == 3

\* the merge harness draws row values from 1..MaxVal
MaxVal == 2

\* the retry harness draws max_retries from 0..MaxRetriesArg
MaxRetriesArg == 5

\* the validator harness validates frames of at most MaxVRows rows
MaxVRows == 2

\* the validator harness calls add_issue while a report has fewer than
\* MaxIssues issues
MaxIssues == 3

\* log_failure is called at most MaxLogged times
MaxLogged == 3

\* the provider answers with rows at timestamps 1..MaxProviderTs
MaxProviderTs == 2

\* the clock stops at tick MaxClock
MaxClock == 4

\* at most MaxAttempts pipeline runs
MaxAttempts == 1

\* the gap harness reads daily series over days 0..MaxDay
MaxDay == 12

\* a batch run is configured with at most MaxStocks stocks and MaxIndices
\* indices
MaxStocks == 1

MaxIndices == 1

\* the history harness makes at most MaxCalls calls on a metadata file
MaxCalls == 4

\* the staleness harness records last_update at minutes 1..MaxLastUpdate
MaxLastUpdate == 3

\* the fetch range harness uses the dates 1..MaxDate
MaxDate == 3

---------------------------------------------------------------------------
(* DataFrames *)

\* a structure check that does not ask for Volume
RequiredColsNoVolume == {"Open", "High", "Low", "Close"}

RequiredCols == {"Open", "High", "Low", "Close", "Volume"}

\* Python's None where a DataFrame is expected
NoneDF == [none |-> TRUE, cols |-> {}, rows |-> <<>>, tz |-> "naive"]

\* pd.DataFrame()
EmptyDF == [none |-> FALSE, cols |-> {}, rows |-> <<>>, tz |-> "naive"]

\* the timezone DataValidator expects by default
ExpectedTz == "Asia/Kolkata"

\* a frame whose index is in timezone tz ("naive": no timezone)
FrameTz(cols, rows, tz) == [none |-> FALSE, cols |-> cols, rows |-> rows, tz |-> tz]

Frame(cols, rows) == FrameTz(cols, rows, ExpectedTz)

\* df.empty: an axis of length 0
IsEmpty(df) == Len(df.rows) = 0 \/ df.cols = {}

\* a flat bar: every price and the volume equal to v
Bar(t, v) ==
    [ts |-> t, Open |-> v, High |-> v, Low |-> v, Close |-> v, Volume |-> v]

\* the timestamps of a row sequence, in order
RECURSIVE Index(_)
Index(rows) ==
    IF rows = <<>> THEN <<>> ELSE <<Head(rows).ts>> \o Index(Tail(rows))

TsSet(rows) == {rows[i].ts : i \in 1..Len(rows)}

\* df.index.duplicated(keep='first'): row i repeats an earlier timestamp
duplicated_first(rows) ==
    [i \in 1..Len(rows) |-> \E j \in 1..(i - 1) : rows[j].ts = rows[i].ts]

\* df.index.duplicated(keep='last'): row i is repeated by a later timestamp
duplicated_last(rows) ==
    [i \in 1..Len(rows) |-> \E j \in (i + 1)..Len(rows) : rows[j].ts = rows[i].ts]

\* df.index.duplicated().any()
has_duplicates(rows) ==
    \E i \in 1..Len(rows) : duplicated_first(rows)[i]

\* df[~mask]: the rows whose mask entry is FALSE, in frame order
RECURSIVE DropMasked(_, _, _)
DropMasked(rows, mask, i) ==
    IF i > Len(rows) THEN <<>>
    ELSE (IF mask[i] THEN <<>> ELSE <<rows[i]>>) \o DropMasked(rows, mask, i + 1)

\* index.is_monotonic_increasing (non-strict)
is_monotonic_increasing(rows) ==
    \A i \in 1..(Len(rows) - 1) : rows[i].ts <= rows[i + 1].ts

StrictlyAscending(rows) ==
    \A i \in 1..(Len(rows) - 1) : rows[i].ts < rows[i + 1].ts

\* insert row r after the last row whose timestamp is <= r.ts
RECURSIVE InsertSorted(_, _)
InsertSorted(r, sorted) ==
    IF sorted = <<>> THEN <<r>>
    ELSE IF Head(sorted).ts <= r.ts
         THEN <<Head(sorted)>> \o InsertSorted(r, Tail(sorted))
         ELSE <<r>> \o sorted

RECURSIVE SortRows(_)
SortRows(rows) ==
    IF rows = <<>> THEN <<>>
    ELSE InsertSorted(rows[Len(rows)], SortRows(SubSeq(rows, 1, Len(rows) - 1)))

\* a plausible slip: the sort is skipped
sort_index_skipped(df) == df

\* df.sort_index(): rows in ascending timestamp order
sort_index(df) == [df EXCEPT !.rows = SortRows(df.rows)]

\* a plausible slip: the existing rows are left out
concat_incoming_only(a, b) == b

\* pd.concat([a, b]): the rows of a then of b, over the union of the columns
\* (indexes of different timezones are joined in UTC)
concat(a, b) ==
    FrameTz(a.cols \cup b.cols, a.rows \o b.rows, IF a.tz = b.tz THEN a.tz ELSE "UTC")

\* Python's None where a value or an exception is expected
None == 0

---------------------------------------------------------------------------
(* DataMerger *)

\* a plausible slip: keep='first', so that the existing row wins
deduplicate_keep_first(df) ==
    IF has_duplicates(df.rows)
    THEN [df EXCEPT !.rows = DropMasked(df.rows, duplicated_first(df.rows), 1)]
    ELSE df

\* DataMerger._deduplicate with its default keep='last'
deduplicate(df) ==
    IF has_duplicates(df.rows)
    THEN [df EXCEPT !.rows = DropMasked(df.rows, duplicated_last(df.rows), 1)]
    ELSE df

\* a plausible slip: no early return, the existing frame is normalised too
merge_data_no_early_return(existing, new) ==
    LET merged == IF existing.none \/ IsEmpty(existing) THEN new
                  ELSE IF new.none \/ IsEmpty(new) THEN existing
                  ELSE concat(existing, new)
    IN  IF merged.none THEN EmptyDF ELSE sort_index(deduplicate(merged))

\* DataMerger.merge_data with its defaults deduplicate=True, sort=True
merge_data(existing, new) ==
    IF new.none \/ IsEmpty(new)
    THEN IF ~existing.none THEN existing ELSE EmptyDF
    ELSE LET merged == IF existing.none \/ IsEmpty(existing) THEN new
                       ELSE concat(existing, new)
         IN  sort_index(deduplicate(merged))

\* DataMerger._quick_validate
quick_validate(df) ==
    /\ ~df.none
    /\ ~IsEmpty(df)
    /\ is_monotonic_increasing(df.rows)
    /\ ~has_duplicates(df.rows)
    /\ RequiredCols \subseteq df.cols

---------------------------------------------------------------------------
(* RetryManager.retry_with_backoff *)

\* func is called for the n-th time: it returns Value(n) or raises Error(n)
Value(n) == n

Error(n) == n

RetryArgs ==
    [max_retries : 0..MaxRetriesArg, initial_delay : {1, 2},
     backoff_factor : {1, 2}, max_delay : {3, 60}]

NoArgs ==
    [max_retries |-> 0, initial_delay |-> 0, backoff_factor |-> 0, max_delay |-> 0]

\* a plausible slip: the delay is not capped
Min_uncapped(a, b) == a

\* min(delay, max_delay)
Min(a, b) == IF a <= b THEN a ELSE b

\* a plausible slip: range(1, max_retries), one attempt short
attempt_range_short(max_retries) == 1..(max_retries - 1)

\* range(1, max_retries + 1)
attempt_range(max_retries) == 1..max_retries

\* a plausible slip: the first failure is final
should_retry_never(attempt, max_retries) == FALSE

\* if attempt < max_retries
should_retry(attempt, max_retries) == attempt < max_retries

RetryIdle ==
    /\ r_pc = "idle"
    /\ r_args = NoArgs
    /\ r_attempt = 0
    /\ r_delay = 0
    /\ r_last_exception = None
    /\ r_sleeps = <<>>
    /\ r_outcomes = <<>>
    /\ r_result = None
    /\ r_cause = None

\* the call: last_exception = None, delay = initial_delay, and the for loop
\* is entered, or skipped to the closing raise when the range is empty
RetryCall(args) ==
    /\ r_pc = "idle"
    /\ r_args' = args
    /\ r_delay' = args.initial_delay
    /\ r_last_exception' = None
    /\ IF 1 \in attempt_range(args.max_retries)
       THEN r_pc' = "loop" /\ r_attempt' = 1
       ELSE r_pc' = "raised" /\ r_attempt' = 0
    /\ r_cause' = None
    /\ UNCHANGED <<r_sleeps, r_outcomes, r_result>>
    /\ RetryOnly

\* func returns: retry_with_backoff returns its value
FuncReturns ==
    /\ r_pc = "loop"
    /\ r_outcomes' = Append(r_outcomes, "ok")
    /\ r_result' = Value(Len(r_outcomes) + 1)
    /\ r_pc' = "returned"
    /\ UNCHANGED <<r_args, r_attempt, r_delay, r_last_exception, r_sleeps, r_cause>>
    /\ RetryOnly

\* func raises: sleep and go round again, or raise RetryError from the last
\* exception
FuncRaises ==
    /\ r_pc = "loop"
    /\ r_outcomes' = Append(r_outcomes, "fail")
    /\ r_last_exception' = Error(Len(r_outcomes) + 1)
    /\ IF should_retry(r_attempt, r_args.max_retries)
       THEN /\ r_sleeps' = Append(r_sleeps, Min(r_delay, r_args.max_delay))
            /\ r_delay' = r_delay * r_args.backoff_factor
            /\ IF r_attempt + 1 \in attempt_range(r_args.max_retries)
               THEN r_pc' = "loop" /\ r_attempt' = r_attempt + 1 /\ r_cause' = None
               ELSE /\ r_pc' = "raised"
                    /\ r_cause' = r_last_exception'
                    /\ UNCHANGED r_attempt
       ELSE /\ r_pc' = "raised"
            /\ r_cause' = r_last_exception'
            /\ UNCHANGED <<r_sleeps, r_delay, r_attempt>>
    /\ UNCHANGED <<r_args, r_result>>
    /\ RetryOnly

---------------------------------------------------------------------------
(* ValidationReport *)

Severities == {"info", "warning", "error", "critical"}

\* ValidationReport.__init__
NewReport ==
    [issues |-> <<>>, warnings |-> <<>>, stats |-> <<>>, is_valid |-> TRUE]

\* a plausible slip: only 'error' clears is_valid
add_issue_error_only(rep, category, severity, message, details) ==
    [rep EXCEPT
        !.issues = Append(@, [category |-> category, severity |-> severity,
                              message |-> message, details |-> details]),
        !.is_valid = IF severity = "error" THEN FALSE ELSE @]

\* ValidationReport.add_issue
add_issue(rep, category, severity, message, details) ==
    [rep EXCEPT
        !.issues = Append(@, [category |-> category, severity |-> severity,
                              message |-> message, details |-> details]),
        !.is_valid = IF severity \in {"error", "critical"} THEN FALSE ELSE @]

\* ValidationReport.add_warning
add_warning(rep, message) == [rep EXCEPT !.warnings = Append(@, message)]

\* ValidationReport.add_stat (stats is kept as the key/value pairs in order)
add_stat(rep, key, value) == [rep EXCEPT !.stats = Append(@, <<key, value>>)]

---------------------------------------------------------------------------
(* DataValidator.  Timestamps are minutes since a Monday 00:00. *)

MinutesPerDay == 1440

\* a missing value (NaN); every comparison with it is false
NaN == -999

IsNull(x) == x = NaN

Lt(a, b) == ~IsNull(a) /\ ~IsNull(b) /\ a < b

Gt(a, b) == Lt(b, a)

\* ts.date(), as a day number
Date(ts) == ts \div MinutesPerDay

\* the number of rows that satisfy P: (mask).sum()
CountRows(rows, P(_)) == Cardinality({i \in 1..Len(rows) : P(rows[i])})

MinTs(rows) == CHOOSE t \in TsSet(rows) : \A u \in TsSet(rows) : t <= u

MaxTsOf(rows) == CHOOSE t \in TsSet(rows) : \A u \in TsSet(rows) : t >= u

\* DataValidator.check_duplicates: df.index.duplicated().sum()
check_duplicates(df) ==
    Cardinality({i \in 1..Len(df.rows) : duplicated_first(df.rows)[i]})

\* a fix that keeps the first occurrence and raises a negative volume to 0
fix_duplicates_clamping(df) ==
    IF ~has_duplicates(df.rows) THEN df
    ELSE [df EXCEPT !.rows =
            [i \in 1..Len(DropMasked(df.rows, duplicated_first(df.rows), 1)) |->
                [DropMasked(df.rows, duplicated_first(df.rows), 1)[i] EXCEPT
                    !.Volume = IF Lt(@, 0) THEN 0 ELSE @]]]

\* a fix that keeps the last occurrence
fix_duplicates_keep_last(df) ==
    IF ~has_duplicates(df.rows) THEN df
    ELSE [df EXCEPT !.rows = DropMasked(df.rows, duplicated_last(df.rows), 1)]

\* DataValidator.fix_duplicates with its default method='first'
fix_duplicates(df) ==
    IF ~has_duplicates(df.rows) THEN df
    ELSE [df EXCEPT !.rows = DropMasked(df.rows, duplicated_first(df.rows), 1)]

\* DataValidator._parse_interval, in minutes (None: not parsed)
parse_interval(interval) ==
    CASE interval = "1m" -> 1
      [] interval = "2m" -> 2
      [] interval = "5m" -> 5
      [] interval = "15m" -> 15
      [] interval = "30m" -> 30
      [] interval = "60m" -> 60
      [] interval = "90m" -> 90
      [] interval = "1h" -> 60
      [] interval = "1d" -> MinutesPerDay
      [] interval = "5d" -> 5 * MinutesPerDay
      [] interval = "1wk" -> 7 * MinutesPerDay
      [] interval = "1mo" -> 30 * MinutesPerDay
      [] interval = "3mo" -> 90 * MinutesPerDay
      [] OTHER -> None

IntradayIntervals == {"1m", "2m", "5m", "15m", "30m", "60m", "1h"}

\* the intraday loop of check_gaps, from row i on (rows are numbered from 1
\* here, the reported index is the frame's, from 0)
RECURSIVE IntradayGaps(_, _, _)
IntradayGaps(rows, tolerance, i) ==
    IF i > Len(rows) THEN <<>>
    ELSE LET diff == rows[i].ts - rows[i - 1].ts
             here == IF Date(rows[i - 1].ts) # Date(rows[i].ts) THEN <<>>
                     ELSE IF diff > tolerance
                     THEN <<[message |-> <<"Gap detected", diff, "at", rows[i].ts>>,
                             details |-> diff, index |-> i - 1]>>
                     ELSE <<>>
         IN  here \o IntradayGaps(rows, tolerance, i + 1)

\* time_diffs[time_diffs > max_gap], from row i on
RECURSIVE LargeGaps(_, _, _)
LargeGaps(rows, max_gap, i) ==
    IF i > Len(rows) THEN <<>>
    ELSE LET diff == rows[i].ts - rows[i - 1].ts
             here == IF diff > max_gap
                     THEN <<[message |-> <<"Large gap detected at", rows[i].ts>>,
                             details |-> diff, index |-> i - 1]>>
                     ELSE <<>>
         IN  here \o LargeGaps(rows, max_gap, i + 1)

\* DataValidator.check_gaps
check_gaps(df, interval) ==
    LET interval_td == parse_interval(interval)
    IN  IF Len(df.rows) < 2 THEN <<>>
        ELSE IF interval_td = None THEN <<>>
        ELSE IF interval \in IntradayIntervals
        THEN IntradayGaps(df.rows, interval_td * 2, 2)
        ELSE LargeGaps(df.rows,
                       IF interval = "1d" THEN 4 * MinutesPerDay ELSE interval_td * 2,
                       2)

PriceCols == <<"Open", "High", "Low", "Close">>

ColumnOrder == <<"Open", "High", "Low", "Close", "Volume">>

QualityIssue(severity, message, n) ==
    [severity |-> severity, message |-> message, details |-> n]

\* a plausible slip: every quality finding is reported as a warning
IssueIf_warning(n, severity, message) ==
    IF n > 0 THEN <<QualityIssue("warning", message, n)>> ELSE <<>>

\* one issue when n > 0
IssueIf(n, severity, message) ==
    IF n > 0 THEN <<QualityIssue(severity, message, n)>> ELSE <<>>

\* one per-column loop of check_data_quality: the issues of the columns the
\* frame has, in column order
ForColumns(df, columns, Issue(_)) ==
    LET upto[k \in 0..Len(columns)] ==
            IF k = 0 THEN <<>>
            ELSE upto[k - 1] \o (IF columns[k] \in df.cols THEN Issue(columns[k]) ELSE <<>>)
    IN  upto[Len(columns)]

NegativeCount(rows, col) == CountRows(rows, LAMBDA r : Lt(r[col], 0))

ZeroCount(rows, col) == CountRows(rows, LAMBDA r : r[col] = 0)

NullCount(rows, col) == CountRows(rows, LAMBDA r : IsNull(r[col]))

\* DataValidator.check_data_quality
check_data_quality(df) ==
    LET rows == df.rows
        has(c) == c \in df.cols
    IN  ForColumns(df, PriceCols,
                LAMBDA c : IssueIf(NegativeCount(rows, c), "error",
                                   <<"Negative", c, "prices found">>))
        \o ForColumns(df, PriceCols,
                LAMBDA c : IssueIf(ZeroCount(rows, c), "warning",
                                   <<"Zero", c, "prices found">>))
        \o (IF has("Volume")
            THEN IssueIf(NegativeCount(rows, "Volume"), "error", <<"Negative volume found">>)
            ELSE <<>>)
        \o (IF has("High") /\ has("Low")
            THEN IssueIf(CountRows(rows, LAMBDA r : Lt(r.High, r.Low)),
                         "error", <<"High < Low detected">>)
            ELSE <<>>)
        \o (IF \A k \in 1..Len(PriceCols) : has(PriceCols[k])
            THEN IssueIf(CountRows(rows, LAMBDA r : Gt(r.Open, r.High) \/ Lt(r.Open, r.Low)),
                         "warning", <<"Open price outside High-Low range">>)
                 \o IssueIf(CountRows(rows, LAMBDA r : Gt(r.Close, r.High) \/ Lt(r.Close, r.Low)),
                         "warning", <<"Close price outside High-Low range">>)
            ELSE <<>>)
        \o ForColumns(df, ColumnOrder,
                LAMBDA c : IssueIf(NullCount(rows, c), "warning", <<"Null values in", c>>))
        \o (IF has("Volume")
            THEN IssueIf(ZeroCount(rows, "Volume"), "info", <<"Zero volume detected">>)
            ELSE <<>>)

\* DataValidator.check_timezone: a warning message, or None
check_timezone(df) ==
    IF df.tz = "naive" THEN <<"timezone-naive, expected", ExpectedTz>>
    ELSE IF df.tz # ExpectedTz THEN <<"Timezone mismatch: got", df.tz>>
    ELSE <<>>

\* report.add_issue for each quality issue, in order
RECURSIVE AddQualityIssues(_, _)
AddQualityIssues(rep, issues) ==
    IF issues = <<>> THEN rep
    ELSE AddQualityIssues(
             add_issue(rep, "data_quality", Head(issues).severity,
                       Head(issues).message, Head(issues).details),
             Tail(issues))

\* a plausible slip: gaps are reported with severity error
RECURSIVE AddGapIssues_error(_, _)
AddGapIssues_error(rep, gaps) ==
    IF gaps = <<>> THEN rep
    ELSE AddGapIssues_error(
             add_issue(rep, "gaps", "error", Head(gaps).message, Head(gaps).details),
             Tail(gaps))

\* report.add_issue for each gap, in order
RECURSIVE AddGapIssues(_, _)
AddGapIssues(rep, gaps) ==
    IF gaps = <<>> THEN rep
    ELSE AddGapIssues(
             add_issue(rep, "gaps", "warning", Head(gaps).message, Head(gaps).details),
             Tail(gaps))

\* DataValidator.validate_dataframe: [df |-> the returned frame, report |-> the report].
\* The frame is a DataFrame: df.copy() precedes the test for None.
validate_dataframe(df, interval, auto_fix) ==
    IF IsEmpty(df)
    THEN [df |-> df,
          report |-> add_issue(NewReport, "data", "critical",
                               <<"DataFrame is empty or None">>, None)]
    ELSE
    LET rep0 == add_stat(add_stat(add_stat(NewReport,
                    "total_rows", Len(df.rows)),
                    "interval", interval),
                    "date_range", <<MinTs(df.rows), MaxTsOf(df.rows)>>)
    IN  IF ~(RequiredCols \subseteq df.cols)
        THEN [df |-> df,
              report |-> add_issue(rep0, "structure", "critical",
                                   <<"Missing required columns">>, None)]
        ELSE
        LET duplicates == check_duplicates(df)
            rep1 == IF duplicates > 0
                    THEN add_issue(rep0, "duplicates", "error",
                                   <<"Found duplicate timestamps">>, duplicates)
                    ELSE rep0
            fixed == IF duplicates > 0 /\ auto_fix THEN fix_duplicates(df) ELSE df
            rep2 == IF duplicates > 0 /\ auto_fix
                    THEN add_warning(rep1, <<"Auto-fixed: Removed duplicates", duplicates>>)
                    ELSE rep1
            rep3 == AddQualityIssues(rep2, check_data_quality(fixed))
            rep4 == AddGapIssues(rep3, check_gaps(fixed, interval))
            tz_issue == check_timezone(fixed)
            rep5 == IF tz_issue # <<>> THEN add_warning(rep4, tz_issue) ELSE rep4
            rep6 == add_stat(rep5, "validated_rows", Len(fixed.rows))
            rep7 == IF auto_fix
                    THEN add_stat(rep6, "rows_removed", Len(df.rows) - Len(fixed.rows))
                    ELSE rep6
        IN  [df |-> fixed, report |-> rep7]

---------------------------------------------------------------------------
(* The merge harness: merge_data applied to every pair of bounded frames *)

HarnessRows == {Bar(t, v) : t \in 1..MaxTs, v \in 1..MaxVal}

\* the row sequences of length exactly n over S
RECURSIVE SeqsOfLen(_, _)
SeqsOfLen(S, n) ==
    IF n = 0 THEN {<<>>}
    ELSE {Append(s, x) : s \in SeqsOfLen(S, n - 1), x \in S}

HarnessSeqs == [n \in 0..MaxRows |-> SeqsOfLen(HarnessRows, n)]

\* every frame of at most n harness rows, and None
HarnessFrames(n) ==
    {Frame(RequiredCols, rows) : rows \in UNION {HarnessSeqs[k] : k \in 0..n}}
        \cup {NoneDF}

MergeIdle ==
    /\ existing_df = NoneDF
    /\ new_df = NoneDF
    /\ merged_df = NoneDF
    /\ mpc = "idle"

\* the overlap scenario: two stored days, two fetched days, the second day in both
ScenarioExisting == Frame(RequiredCols, <<Bar(1, 100), Bar(2, 101)>>)

ScenarioIncoming == Frame(RequiredCols, <<Bar(2, 105), Bar(3, 102)>>)

MergeInit ==
    /\ \/ /\ existing_df \in HarnessFrames(MaxRows)
          /\ new_df \in HarnessFrames(MaxRows - Len(existing_df.rows))
       \/ /\ existing_df = ScenarioExisting
          /\ new_df = ScenarioIncoming
    /\ merged_df = NoneDF
    /\ mpc = "args"

MergeData ==
    /\ mpc = "args"
    /\ merged_df' = merge_data(existing_df, new_df)
    /\ mpc' = "returned"
    /\ UNCHANGED <<existing_df, new_df>>
    /\ MergeOnly

---------------------------------------------------------------------------
(* The validator harness: a ValidationReport built by add_issue calls, or   *)
(* returned by validate_dataframe for a bounded frame                       *)

Ohlcv(t, o, h, l, c, v) ==
    [ts |-> t, Open |-> o, High |-> h, Low |-> l, Close |-> c, Volume |-> v]

\* 09:15, DataValidator.MARKET_OPEN_HOUR and MARKET_OPEN_MINUTE
MarketOpen == 9 * 60 + 15

\* Monday 09:15, 09:20 and 09:35, and Saturday 09:15
VTimestamps ==
    {MarketOpen, MarketOpen + 5, MarketOpen + 20, MarketOpen + 5 * MinutesPerDay}

\* a sound bar, and one bar for each quality check
VRows ==
    UNION {{Ohlcv(t, 10, 12, 9, 11, 100),      \* sound
            Ohlcv(t, -1, 12, -1, 11, 100),     \* negative prices
            Ohlcv(t, 10, 12, 0, 11, 100),      \* a zero price
            Ohlcv(t, 10, 12, 9, 11, -5),       \* negative volume
            Ohlcv(t, 100, 99, 100, 100, 100),  \* High < Low
            Ohlcv(t, 13, 12, 9, 8, 100),       \* Open and Close outside [Low, High]
            Ohlcv(t, 10, 12, 9, NaN, 100),     \* a null price
            Ohlcv(t, 10, 12, 9, 11, 0)}        \* zero volume
           : t \in VTimestamps}

\* the rows of a frame read without column col
WithoutColumn(rows, col) == [i \in 1..Len(rows) |-> [rows[i] EXCEPT ![col] = NaN]]

\* the row sequences of at most n rows
VSeqs(n) == UNION {SeqsOfLen(VRows, k) : k \in 0..n}

\* the frames of at most n rows: complete frames, timezone-aware or naive, and
\* frames without a Volume column
VFrames(n) ==
    {FrameTz(RequiredCols \cup {"Symbol"}, rows, tz) :
        rows \in VSeqs(n), tz \in {ExpectedTz, "naive"}}
    \cup {Frame({"Open", "High", "Low", "Close", "Symbol"}, WithoutColumn(rows, "Volume")) :
            rows \in VSeqs(n)}
    \cup {FrameTz({"Open", "High", "Low", "Close", "Symbol"},
                  WithoutColumn(rows, "Volume"), "naive") : rows \in VSeqs(1)}

VIntervals == {"5m", "1d"}

NoValidateArgs == [df |-> NoneDF, interval |-> "", auto_fix |-> FALSE]

ReportIdle ==
    /\ report = NewReport
    /\ v_args = NoValidateArgs
    /\ validated_df = NoneDF
    /\ v_pc = "idle"

\* report = ValidationReport()
ReportInit ==
    /\ report = NewReport
    /\ v_args = NoValidateArgs
    /\ validated_df = NoneDF
    /\ v_pc = "new"

\* report.add_issue(category, severity, message)
AddIssue(category, severity) ==
    /\ v_pc \in {"new", "added"}
    /\ Len(report.issues) < MaxIssues
    /\ report' = add_issue(report, category, severity, <<"message">>, None)
    /\ v_pc' = "added"
    /\ UNCHANGED <<v_args, validated_df>>
    /\ ReportOnly

\* the caller's arguments for validate_dataframe
ValidateArgs ==
    /\ v_pc = "new"
    /\ v_args' \in [df : VFrames(MaxVRows), interval : VIntervals, auto_fix : BOOLEAN]
    /\ v_pc' = "args"
    /\ UNCHANGED <<report, validated_df>>
    /\ ReportOnly

\* validated_df, report = validator.validate_dataframe(df, interval, auto_fix)
ValidateDataframe ==
    /\ v_pc = "args"
    /\ LET out == validate_dataframe(v_args.df, v_args.interval, v_args.auto_fix)
       IN  /\ validated_df' = out.df
           /\ report' = out.report
    /\ v_pc' = "validated"
    /\ UNCHANGED v_args
    /\ ReportOnly

---------------------------------------------------------------------------
(* The failure ledger: RetryManager instances that share one log_dir, and   *)
(* the workers that call log_failure on them                                *)

Managers == 1..2

\* workers 1 and 2 share manager 1, worker 3 has manager 2 to itself
Workers == 1..3

manager_of(w) == IF w = 3 THEN 2 ELSE 1

Symbols == {"NIFTY", "BANKNIFTY"}

\* no file download_failures.json
NoFile == [exists |-> FALSE, content |-> <<>>, valid_json |-> TRUE]

\* a file download_failures.json that json.load cannot parse
CorruptFile == [exists |-> TRUE, content |-> <<>>, valid_json |-> FALSE]

NoEntry == [timestamp |-> 0, symbol |-> "", interval |-> "", error |-> None]

Range(seq) == {seq[i] : i \in 1..Len(seq)}

\* a plausible slip: the constructor does not read the file
load_failures_skipped(file, current) == current

\* RetryManager._load_failures: the new value of self.failures
load_failures(file, current) ==
    IF ~file.exists THEN current
    ELSE IF file.valid_json THEN file.content
    ELSE <<>>

\* RetryManager._save_failures: the new content of the file
save_failures(file, list) == [exists |-> TRUE, content |-> list, valid_json |-> TRUE]

\* RetryManager.get_failed_downloads(symbol=symbol) without since; "" and
\* None both mean no filter
get_failed_downloads(list, symbol) ==
    IF symbol = "" THEN list
    ELSE SelectSeq(list, LAMBDA f : f.symbol = symbol)

\* manager 1 is constructed as the scripts do, without alert_callback;
\* manager 2 with one
alert_callback(m) == m = 2

\* a plausible slip: the alert callback is called outside a try
after_alert_unguarded(hook) == IF hook = "raises" THEN "raised" ELSE "idle"

\* log_failure after the callback returned or raised: the except clause logs
\* the error and log_failure returns
after_alert(hook) == "idle"

LedgerIdle ==
    /\ failure_log = NoFile
    /\ failures = [m \in Managers |-> <<>>]
    /\ constructed = [m \in Managers |-> FALSE]
    /\ w_pc = [w \in Workers |-> "idle"]
    /\ w_entry = [w \in Workers |-> NoEntry]
    /\ w_alert = [w \in Workers |-> "none"]
    /\ now = 0
    /\ logged = {}

\* RetryManager.__init__
Construct(m) ==
    /\ ~constructed[m]
    /\ constructed' = [constructed EXCEPT ![m] = TRUE]
    /\ failures' = [failures EXCEPT ![m] = load_failures(failure_log, <<>>)]
    /\ UNCHANGED <<failure_log, w_pc, w_entry, w_alert, now, logged>>
    /\ LedgerOnly

\* RetryManager.log_failure up to self.failures.append(failure_entry)
LogFailureAppend(w, symbol, interval, error) ==
    /\ w_pc[w] = "idle"
    /\ constructed[manager_of(w)]
    /\ now < MaxLogged
    /\ LET failure_entry == [timestamp |-> now + 1, symbol |-> symbol,
                             interval |-> interval, error |-> error]
       IN  /\ failures' = [failures EXCEPT ![manager_of(w)] = Append(@, failure_entry)]
           /\ w_entry' = [w_entry EXCEPT ![w] = failure_entry]
    /\ now' = now + 1
    /\ w_pc' = [w_pc EXCEPT ![w] = "save"]
    /\ w_alert' = [w_alert EXCEPT ![w] = "none"]
    /\ UNCHANGED <<failure_log, constructed, logged>>
    /\ LedgerOnly

\* RetryManager.log_failure from self._save_failures() to its return when no
\* alert_callback is configured, and to the call of the callback otherwise
LogFailureSave(w) ==
    /\ w_pc[w] = "save"
    /\ failure_log' = save_failures(failure_log, failures[manager_of(w)])
    /\ IF alert_callback(manager_of(w))
       THEN /\ w_pc' = [w_pc EXCEPT ![w] = "alert"]
            /\ UNCHANGED logged
       ELSE /\ w_pc' = [w_pc EXCEPT ![w] = "idle"]
            /\ logged' = logged \cup {w_entry[w]}
    /\ UNCHANGED <<failures, constructed, w_entry, w_alert, now>>
    /\ LedgerOnly

\* RetryManager.log_failure from self.alert_callback(alert_message), which
\* returns or raises, to the end of log_failure
LogFailureAlert(w, hook) ==
    /\ w_pc[w] = "alert"
    /\ w_alert' = [w_alert EXCEPT ![w] = IF hook = "raises" THEN "raised" ELSE "sent"]
    /\ w_pc' = [w_pc EXCEPT ![w] = after_alert(hook)]
    /\ logged' = IF after_alert(hook) = "idle" THEN logged \cup {w_entry[w]} ELSE logged
    /\ UNCHANGED <<failure_log, failures, constructed, w_entry, now>>
    /\ LedgerOnly

\* the log directory before the first RetryManager: no ledger file, or one
\* that cannot be parsed
LedgerInit ==
    /\ failure_log \in {NoFile, CorruptFile}
    /\ failures = [m \in Managers |-> <<>>]
    /\ constructed = [m \in Managers |-> FALSE]
    /\ w_pc = [w \in Workers |-> "idle"]
    /\ w_entry = [w \in Workers |-> NoEntry]
    /\ w_alert = [w \in Workers |-> "none"]
    /\ now = 0
    /\ logged = {}

---------------------------------------------------------------------------
(* MetadataManager.  The clock counts ticks of HoursPerTick hours from 1.   *)

HoursPerTick == 12

\* the download_history entries update_metadata keeps
HistoryCap == 100

TheSymbol == "NIFTY"

TheInterval == "1d"

\* MetadataManager._create_default_metadata
create_default_metadata(symbol, interval, clk) ==
    [symbol |-> symbol,
     interval |-> interval,
     created_at |-> clk,
     last_update |-> None,
     total_rows |-> 0,
     date_range |-> [start |-> None, end |-> None],
     data_quality |-> [status |-> "unknown", last_validated |-> None,
                       issues_count |-> 0],
     download_history |-> <<>>]

\* no metadata file
NoMetaFile ==
    [state |-> "absent", data |-> create_default_metadata(TheSymbol, TheInterval, 0)]

\* a load that returns whatever the file holds
load_metadata_trusting(file, symbol, interval, clk) == file.data

\* MetadataManager.load_metadata: the file's document, and the default
\* structure when there is no file or json.load fails on it
load_metadata(file, symbol, interval, clk) ==
    IF file.state = "ok" THEN file.data
    ELSE create_default_metadata(symbol, interval, clk)

\* a cap that keeps the oldest entries
keep_first(history) ==
    IF Len(history) > HistoryCap THEN SubSeq(history, 1, HistoryCap) ELSE history

\* the last HistoryCap entries
keep_last(history) ==
    IF Len(history) > HistoryCap
    THEN SubSeq(history, Len(history) - HistoryCap + 1, Len(history))
    ELSE history

\* validation_report=None
NoValidationReport == [none |-> TRUE, status |-> "", issues_count |-> 0]

\* the history_entry of update_metadata
update_entry(stats, clk) ==
    [timestamp |-> clk, rows_added |-> stats.rows_added,
     total_rows |-> stats.total_rows, success |-> TRUE]

\* the history_entry of record_download_failure
failure_entry_of(error_message, clk) ==
    [timestamp |-> clk, success |-> FALSE, error |-> error_message]

\* an update that leaves last_update as it was
updated_metadata_keeps_cursor(file, symbol, interval, stats, validation_report, clk) ==
    LET metadata == load_metadata(file, symbol, interval, clk)
    IN  [metadata EXCEPT
            !.total_rows = stats.total_rows,
            !.date_range = stats.date_range,
            !.download_history =
                keep_last(Append(@, update_entry(stats, clk)))]

\* MetadataManager.update_metadata up to _save_metadata: the new document
updated_metadata(file, symbol, interval, stats, validation_report, clk) ==
    LET metadata == load_metadata(file, symbol, interval, clk)
        quality == IF validation_report.none THEN metadata.data_quality
                   ELSE [status |-> validation_report.status,
                         last_validated |-> clk,
                         issues_count |-> validation_report.issues_count]
        history_entry == update_entry(stats, clk)
    IN  [metadata EXCEPT
            !.last_update = clk,
            !.total_rows = stats.total_rows,
            !.date_range = stats.date_range,
            !.data_quality = quality,
            !.download_history = keep_last(Append(@, history_entry))]

\* MetadataManager._save_metadata, when open and json.dump complete
save_metadata(metadata) == [state |-> "ok", data |-> metadata]

\* MetadataManager._save_metadata cut off after open(metadata_path, 'w'):
\* the old document is gone and the new one is not complete
save_metadata_cut(metadata) == [state |-> "partial", data |-> metadata]

MinutesPerHour == 60

\* an age test that leaves the boundary out
old_enough_strict(age_minutes, max_age_hours) ==
    age_minutes > max_age_hours * MinutesPerHour

\* age_hours >= max_age_hours, for an age of whole minutes
old_enough(age_minutes, max_age_hours) ==
    age_minutes >= max_age_hours * MinutesPerHour

\* MetadataManager.needs_update on a loaded document, the times in minutes;
\* a last_update that datetime.fromisoformat rejects answers True
needs_update_at(last_update, parsable, now_minutes, max_age_hours) ==
    IF last_update = None THEN TRUE
    ELSE IF ~parsable THEN TRUE
    ELSE old_enough(now_minutes - last_update, max_age_hours)

\* MetadataManager.needs_update on the file, the times in ticks
needs_update(file, symbol, interval, max_age_hours, clk) ==
    LET metadata == load_metadata(file, symbol, interval, clk)
    IN  needs_update_at(
            IF metadata.last_update = None THEN None
            ELSE metadata.last_update * HoursPerTick * MinutesPerHour,
            TRUE, clk * HoursPerTick * MinutesPerHour, max_age_hours)

\* MetadataManager.record_download_failure: the new file
record_download_failure(file, symbol, interval, error_message, clk) ==
    LET metadata == load_metadata(file, symbol, interval, clk)
        history_entry == failure_entry_of(error_message, clk)
    IN  save_metadata([metadata EXCEPT
            !.download_history = keep_last(Append(@, history_entry))])

---------------------------------------------------------------------------
(* The synchronisation pipelines of scripts/*.py for one entity, and        *)
(* DataMerger.merge_and_save.  A run is one action; what it has done so far *)
(* is a record st that each step of the run transforms.                     *)

\* no series file
NoCsv == [exists |-> FALSE, df |-> NoneDF]

\* what the provider can answer: None, an empty frame, or one or two rows in
\* any order, with or without the Volume column
ProviderRows == {Bar(t, 1) : t \in 1..MaxProviderTs}

ProviderSeqs == SeqsOfLen(ProviderRows, 1) \cup SeqsOfLen(ProviderRows, 2)

ProviderFrames ==
    {NoneDF, EmptyDF}
    \cup {Frame(RequiredCols, rows) : rows \in ProviderSeqs}
    \cup {Frame(RequiredCols \ {"Volume"}, WithoutColumn(rows, "Volume")) :
            rows \in ProviderSeqs}

\* where a run can be cut short: an exception raised by a step, or the
\* process killed at a point of the run
Faults ==
    {"none", "fetch", "load", "merge", "validate", "backup", "save",
     "meta_save", "crash_before_save", "crash_after_save", "crash_meta_write"}

\* a sound answer of the provider
GoodResp == Frame(RequiredCols, <<Bar(1, 1)>>)

\* what happens to a run: the provider's answer and no fault, or a fault on
\* a sound answer
Scenarios ==
    {[resp |-> f, fault |-> "none"] : f \in ProviderFrames}
    \cup {[resp |-> GoodResp, fault |-> x] : x \in Faults \ {"none"}}

\* df.to_csv(filepath, index=True) followed by pd.read_csv(filepath,
\* index_col=0, parse_dates=True): the rows and columns as written; an aware
\* index comes back with the fixed offset that was written
read_csv(df) ==
    [df EXCEPT !.tz = IF @ = "naive" THEN "naive"
                      ELSE IF @ = "UTC" THEN "UTC" ELSE "UTC+05:30"]

\* DataMerger.load_existing_data (a written series file is never of size 0)
load_existing_data(file) == IF ~file.exists THEN NoneDF ELSE read_csv(file.df)

NoAttempt ==
    [kind |-> "none", forced |-> FALSE, outcome |-> "none", needed |-> FALSE,
     meta_before |-> NoMetaFile, ledger_before |-> 0, saved |-> FALSE,
     answer |-> "none", csv_before |-> NoCsv, at |-> 0, written |-> FALSE,
     follows |-> FALSE, backup |-> "none", backups_before |-> <<>>,
     fetched |-> NoneDF, report |-> NewReport, updated |-> "none"]

NoCommit == [exists |-> FALSE, data |-> NoMetaFile.data]

SyncIdle ==
    /\ csv_file = NoCsv
    /\ backups = <<>>
    /\ meta_file = NoMetaFile
    /\ committed = NoCommit
    /\ clock = 1
    /\ attempts = 0
    /\ p_last = NoAttempt

\* a run's record for the given stores and ledger
RunFrom(csv, baks, meta, commit, list, log, t, done) ==
    [csv |-> csv, backups |-> baks, meta |-> meta, committed |-> commit,
     failures |-> list, failure_log |-> log, now |-> t, logged |-> done,
     outcome |-> "running", error |-> "", saved |-> FALSE,
     df |-> NoneDF, existing |-> NoneDF, rows_added |-> 0,
     report |-> NewReport, answer |-> "none", backup |-> "none",
     fetched |-> NoneDF, updated |-> "none"]

\* the state a run starts from
Start ==
    RunFrom(csv_file, backups, meta_file, committed, failures[1],
            failure_log, now, logged)

Running(st) == st.outcome = "running"

\* an exception leaves the step
Raise(st, error) == [st EXCEPT !.outcome = "raised", !.error = error]

\* the process is killed
Crash(st) == [st EXCEPT !.outcome = "crashed"]

\* RetryManager.log_failure on the run's manager
log_failure(st, symbol, interval, error) ==
    LET failure_entry == [timestamp |-> st.now + 1, symbol |-> symbol,
                          interval |-> interval, error |-> error]
        list == Append(st.failures, failure_entry)
    IN  [st EXCEPT !.failures = list,
                   !.failure_log = save_failures(@, list),
                   !.now = @ + 1,
                   !.logged = @ \cup {failure_entry}]

\* a handler that also records the failure in the metadata store
except_handler_recording(st, symbol, interval, clk) ==
    IF st.outcome # "raised" THEN st
    ELSE log_failure(
             [st EXCEPT !.outcome = "failed",
                        !.meta = record_download_failure(@, symbol, interval,
                                                         st.error, clk)],
             symbol, interval, st.error)

\* the pipelines' "except Exception as e:" clause
except_handler(st, symbol, interval, clk) ==
    IF st.outcome # "raised" THEN st
    ELSE log_failure([st EXCEPT !.outcome = "failed"], symbol, interval, st.error)

\* DataFetcher.fetch_data, directly or through retry_with_backoff: the
\* provider's frame with the Symbol column added, or an exception when the
\* provider fails or answers with nothing on every try
fetch_step(st, resp, fault) ==
    IF ~Running(st) THEN st
    ELSE IF fault = "fetch"
    THEN Raise([st EXCEPT !.answer = "error"], "DataFetchError")
    ELSE IF resp.none \/ IsEmpty(resp)
    THEN Raise([st EXCEPT !.answer = "empty"], "DataFetchError")
    ELSE [st EXCEPT !.df = [resp EXCEPT !.cols = @ \cup {"Symbol"}],
                    !.fetched = [resp EXCEPT !.cols = @ \cup {"Symbol"}],
                    !.answer = "rows"]

\* existing_df = self.merger.load_existing_data(csv_path)
load_step(st, fault) ==
    IF ~Running(st) THEN st
    ELSE IF fault = "load" /\ st.csv.exists THEN Raise(st, "MergeError")
    ELSE [st EXCEPT !.existing = load_existing_data(st.csv)]

\* merged_df = self.merger.merge_data(existing_df, new_df), and rows_added
merge_step(st, fault) ==
    IF ~Running(st) THEN st
    ELSE IF fault = "merge" THEN Raise(st, "MergeError")
    ELSE LET merged == merge_data(st.existing, st.df)
         IN  [st EXCEPT
                !.df = merged,
                !.rows_added = Len(merged.rows)
                    - (IF ~st.existing.none THEN Len(st.existing.rows) ELSE 0)]

\* validated_df, report = self.validator.validate_dataframe(df, interval, auto_fix)
validate_step(st, interval, auto_fix, fault) ==
    IF ~Running(st) THEN st
    ELSE IF fault = "validate" THEN Raise(st, "Exception")
    ELSE LET out == validate_dataframe(st.df, interval, auto_fix)
         IN  [st EXCEPT !.df = out.df, !.report = out.report]

\* a backup that copies what is about to be written
create_backup_of_new(st, fault) ==
    IF fault = "backup" THEN [st EXCEPT !.backup = "failed"]
    ELSE [st EXCEPT !.backups = Append(@, st.df), !.backup = "made"]

\* DataMerger._create_backup: shutil.copy2 of the file as it is; a failure
\* of the copy is logged and not raised
create_backup(st, fault) ==
    IF fault = "backup" THEN [st EXCEPT !.backup = "failed"]
    ELSE [st EXCEPT !.backups = Append(@, st.csv.df), !.backup = "made"]

\* DataMerger.save_data with backup_enabled: the backup copy, then to_csv
save_data(st, fault) ==
    IF ~Running(st) THEN st
    ELSE IF fault = "crash_before_save" THEN Crash(st)
    ELSE LET backed == IF st.csv.exists THEN create_backup(st, fault) ELSE st
         IN  IF fault = "save"
             THEN Raise(backed, "MergeError")
             ELSE [backed EXCEPT !.csv = [exists |-> TRUE, df |-> st.df],
                                 !.saved = TRUE]

\* a plausible slip: total_rows counts the rows added
stats_of_added(st, rows_added) ==
    [total_rows |-> rows_added,
     rows_added |-> rows_added,
     date_range |-> [start |-> MinTs(st.df.rows), end |-> MaxTsOf(st.df.rows)]]

\* the stats the pipelines hand to update_metadata
stats_of(st, rows_added) ==
    [total_rows |-> Len(st.df.rows),
     rows_added |-> rows_added,
     date_range |-> [start |-> MinTs(st.df.rows), end |-> MaxTsOf(st.df.rows)]]

\* the validation_report the pipelines hand to update_metadata
validation_report_of(rep) ==
    [none |-> FALSE,
     status |-> IF rep.is_valid THEN "passed" ELSE "issues",
     issues_count |-> Len(rep.issues)]

\* a plausible slip: the MetadataError of _save_metadata leaves update_metadata
update_metadata_raising(st, symbol, interval, stats, validation_report, fault, clk) ==
    IF ~Running(st) THEN st
    ELSE IF fault = "crash_after_save" THEN Crash(st)
    ELSE LET metadata == updated_metadata(st.meta, symbol, interval, stats,
                                          validation_report, clk)
         IN  IF fault = "crash_meta_write"
             THEN Crash([st EXCEPT !.meta = save_metadata_cut(metadata)])
             ELSE IF fault = "meta_save" THEN Raise(st, "MetadataError")
             ELSE [st EXCEPT !.meta = save_metadata(metadata),
                             !.committed = [exists |-> TRUE, data |-> metadata],
                             !.updated = "true"]

\* MetadataManager.update_metadata: an exception of _save_metadata is caught
\* and answered with False, which the pipelines ignore
update_metadata(st, symbol, interval, stats, validation_report, fault, clk) ==
    IF ~Running(st) THEN st
    ELSE IF fault = "crash_after_save" THEN Crash(st)
    ELSE LET metadata == updated_metadata(st.meta, symbol, interval, stats,
                                          validation_report, clk)
         IN  IF fault = "crash_meta_write"
             THEN Crash([st EXCEPT !.meta = save_metadata_cut(metadata)])
             ELSE IF fault = "meta_save" THEN [st EXCEPT !.updated = "false"]
             ELSE [st EXCEPT !.meta = save_metadata(metadata),
                             !.committed = [exists |-> TRUE, data |-> metadata],
                             !.updated = "true"]

\* the run is over without an exception
finish(st) == IF Running(st) THEN [st EXCEPT !.outcome = "success"] ELSE st

\* a run on an empty data directory and an empty log directory
FreshRun == RunFrom(NoCsv, <<>>, NoMetaFile, NoCommit, <<>>, NoFile, 0, {})

\* the initial download of a sound answer at tick 1, as DownloadSymbol runs it
DownloadedRun ==
    {finish(update_metadata(s3, TheSymbol, TheInterval,
                            stats_of(s3, Len(s3.df.rows)),
                            validation_report_of(s3.report), "none", 1)) :
        s3 \in {save_data(s2, "none") :
            s2 \in {validate_step(s1, TheInterval, TRUE, "none") :
                s1 \in {fetch_step(FreshRun, GoodResp, "none")}}}}

\* the pipelines that end with update_metadata
SyncKinds == {"update", "download", "fill_gap"}

\* the last run was a pipeline that succeeded and wrote the metadata file
Synchronized ==
    p_last.kind \in SyncKinds /\ p_last.outcome = "success" /\ p_last.written

\* the run's effects become the state; the run is remembered in p_last
Commit(st, kind, forced, needed) ==
    /\ csv_file' = st.csv
    /\ backups' = st.backups
    /\ meta_file' = st.meta
    /\ committed' = st.committed
    /\ failures' = [failures EXCEPT ![1] = st.failures]
    /\ failure_log' = st.failure_log
    /\ now' = st.now
    /\ logged' = st.logged
    /\ attempts' = attempts + 1
    /\ p_last' = [kind |-> kind, forced |-> forced, outcome |-> st.outcome,
                  needed |-> needed, meta_before |-> meta_file,
                  ledger_before |-> Len(failure_log.content),
                  saved |-> st.saved, answer |-> st.answer,
                  csv_before |-> csv_file, at |-> clock,
                  written |-> st.meta.state = "ok" /\ st.meta # meta_file,
                  follows |-> Synchronized, backup |-> st.backup,
                  backups_before |-> backups,
                  fetched |-> st.fetched, report |-> st.report,
                  updated |-> st.updated]
    /\ UNCHANGED clock
    /\ SyncOnly

\* DailyUpdater.update_symbol (dry_run=False)
UpdateSymbolRun(dates, scenarios) ==
    \E specific_date \in dates, sc \in scenarios :
       \E s1 \in {fetch_step(Start, sc.resp, sc.fault)} :
       \E s2 \in {load_step(s1, sc.fault)} :
       \E s3 \in {merge_step(s2, sc.fault)} :
       \E s4 \in {validate_step(s3, TheInterval, TRUE, sc.fault)} :
       \E s5 \in {save_data(s4, sc.fault)} :
       \E s6 \in {update_metadata(s5, TheSymbol, TheInterval,
                                  stats_of(s5, s5.rows_added),
                                  validation_report_of(s5.report),
                                  sc.fault, clock)} :
       LET forced == specific_date # None
           needed == needs_update(meta_file, TheSymbol, TheInterval, 24, clock)
           run == IF Running(s1) /\ (s1.df.none \/ IsEmpty(s1.df))
                  THEN [s1 EXCEPT !.outcome = "nodata"]
                  ELSE finish(s6)
       IN  Commit(IF ~forced /\ ~needed THEN [Start EXCEPT !.outcome = "skipped"]
                  ELSE except_handler(run, TheSymbol, TheInterval, clock),
                  "update", forced, needed)

\* one of the runs MaxAttempts allows
UpdateSymbol ==
    /\ attempts < MaxAttempts
    /\ UpdateSymbolRun({None, 1}, Scenarios)

\* the run of the next batch, without target date, after a synchronization:
\* the provider answers soundly or the fetch fails
FollowingUpdate ==
    /\ Synchronized
    /\ ~p_last.follows
    /\ UpdateSymbolRun({None}, {[resp |-> GoodResp, fault |-> x] :
                                    x \in {"none", "fetch"}})

\* InitialDownloader.download_symbol for the one interval
DownloadSymbol ==
    /\ attempts < MaxAttempts
    /\ \E force \in BOOLEAN, sc \in Scenarios :
       \E s0 \in {IF ~force /\ csv_file.exists THEN load_step(Start, sc.fault)
                  ELSE Start} :
       \E s1 \in {fetch_step(s0, sc.resp, sc.fault)} :
       \E s2 \in {validate_step(s1, TheInterval, TRUE, sc.fault)} :
       \E s3 \in {save_data(s2, sc.fault)} :
       \E s4 \in {update_metadata(s3, TheSymbol, TheInterval,
                                  stats_of(s3, Len(s3.df.rows)),
                                  validation_report_of(s3.report),
                                  sc.fault, clock)} :
       LET needed == needs_update(meta_file, TheSymbol, TheInterval, 24, clock)
           skip == /\ ~force /\ csv_file.exists /\ Running(s0)
                   /\ ~s0.existing.none /\ ~IsEmpty(s0.existing)
           run == IF skip THEN [s0 EXCEPT !.outcome = "skipped"]
                  ELSE IF Running(s1) /\ (s1.df.none \/ IsEmpty(s1.df))
                  THEN log_failure([s1 EXCEPT !.outcome = "failed"],
                                   TheSymbol, TheInterval, "No data returned")
                  ELSE finish(s4)
       IN  Commit(except_handler(run, TheSymbol, TheInterval, clock),
                  "download", force, needed)

\* GapFixer.fill_gap
FillGap ==
    /\ attempts < MaxAttempts
    /\ \E sc \in Scenarios :
       \E s1 \in {load_step(Start, sc.fault)} :
       \E s2 \in {fetch_step(s1, sc.resp, sc.fault)} :
       \E s3 \in {merge_step(s2, sc.fault)} :
       \E s4 \in {validate_step(s3, TheInterval, TRUE, sc.fault)} :
       \E s5 \in {save_data(s4, sc.fault)} :
       \E s6 \in {update_metadata(s5, TheSymbol, TheInterval,
                                  stats_of(s5, s5.rows_added),
                                  NoValidationReport, sc.fault, clock)} :
       LET needed == needs_update(meta_file, TheSymbol, TheInterval, 24, clock)
           run == IF Running(s2) /\ (s2.df.none \/ IsEmpty(s2.df))
                  THEN [s2 EXCEPT !.outcome = "nodata"]
                  ELSE finish(s6)
       IN  Commit(except_handler(run, TheSymbol, TheInterval, clock),
                  "fill_gap", TRUE, needed)

\* DataMerger.merge_and_save: every exception is caught and answered with
\* (False, 0)
MergeAndSave ==
    /\ attempts < MaxAttempts
    /\ \E validate \in BOOLEAN, sc \in Scenarios :
       \E s1 \in {[load_step(Start, sc.fault) EXCEPT !.df = sc.resp]} :
       \E s2 \in {merge_step(s1, sc.fault)} :
       \E s3 \in {IF Running(s2) /\ validate /\ ~quick_validate(s2.df)
                  THEN Raise(s2, "MergeError") ELSE s2} :
       \E s4 \in {finish(save_data(s3, sc.fault))} :
       LET needed == needs_update(meta_file, TheSymbol, TheInterval, 24, clock)
       IN  Commit(IF s4.outcome = "raised"
                  THEN [s4 EXCEPT !.outcome = "returned_false"] ELSE s4,
                  "merge_and_save", TRUE, needed)

\* time passes
Tick ==
    /\ clock < MaxClock
    /\ clock' = clock + 1
    /\ UNCHANGED <<csv_file, backups, meta_file, committed, attempts, p_last>>
    /\ UNCHANGED <<mergeVars, retryVars, reportVars, ledgerVars, otherVars>>

---------------------------------------------------------------------------
(* GapFixer.  Day 0 is Monday 2024-01-15; a daily row of day d has the      *)
(* timestamp d * MinutesPerDay.                                             *)

\* GapFixer.MARKET_HOLIDAYS within the days of the model: 2024-01-26
Holidays == {11}

\* datetime.weekday(): Monday is 0
weekday(ts) == (ts \div MinutesPerDay) % 7

\* GapFixer._is_valid_gap
is_valid_gap(gap_date) ==
    IF weekday(gap_date) >= 5 THEN [is_valid |-> TRUE, reason |-> "weekend"]
    ELSE IF Date(gap_date) \in Holidays
    THEN [is_valid |-> TRUE, reason |-> "market_holiday"]
    ELSE [is_valid |-> FALSE, reason |-> "trading_day"]

\* the gap_info identify_gaps builds for one gap of check_gaps
gap_info_of(df, gap, symbol, interval, category) ==
    LET checked == interval = "1d"
        verdict == is_valid_gap(df.rows[gap.index + 1].ts)
    IN  [symbol |-> symbol, interval |-> interval, category |-> category,
         message |-> gap.message, details |-> gap.details, index |-> gap.index,
         is_valid_gap |-> IF checked THEN verdict.is_valid ELSE FALSE,
         gap_reason |-> IF checked THEN verdict.reason ELSE "",
         fixable |-> IF checked /\ verdict.is_valid THEN FALSE ELSE TRUE]

\* GapFixer.identify_gaps
identify_gaps(file, symbol, interval, category) ==
    LET df == load_existing_data(file)
        gap_issues == check_gaps(df, interval)
    IN  IF ~file.exists THEN <<>>
        ELSE IF df.none \/ IsEmpty(df) THEN <<>>
        ELSE [k \in 1..Len(gap_issues) |->
                gap_info_of(df, gap_issues[k], symbol, interval, category)]

\* the daily series of one to three days of 0..MaxDay, in order
DailySeqs ==
    {<<Bar(a * MinutesPerDay, 1)>> : a \in 0..MaxDay}
    \cup {<<Bar(a * MinutesPerDay, 1), Bar(b * MinutesPerDay, 1)>> :
            a \in 0..MaxDay, b \in 0..MaxDay} 
    \cup {<<Bar(a * MinutesPerDay, 1), Bar(b * MinutesPerDay, 1),
            Bar(c * MinutesPerDay, 1)>> :
            a \in 0..MaxDay, b \in 0..MaxDay, c \in 0..MaxDay}

DailyFiles ==
    {NoCsv} \cup {[exists |-> TRUE, df |-> FrameTz(RequiredCols, rows, "naive")] :
                    rows \in {r \in DailySeqs : StrictlyAscending(r)}}

GapIdle ==
    /\ g_file = NoCsv
    /\ g_gaps = <<>>
    /\ g_pc = "idle"

GapInit ==
    /\ g_file \in DailyFiles
    /\ g_gaps = <<>>
    /\ g_pc = "args"

\* gaps = fixer.identify_gaps(symbol, '1d')
IdentifyGaps ==
    /\ g_pc = "args"
    /\ g_gaps' = identify_gaps(g_file, TheSymbol, "1d", "stocks")
    /\ g_pc' = "identified"
    /\ UNCHANGED g_file
    /\ GapOnly

---------------------------------------------------------------------------
(* DailyUpdater.run: the batch over the configured symbols and intervals.   *)
(* Stocks are the symbols 1..n, indices the symbols after them.             *)

\* what update_symbol returns for a run that ended with the given outcome;
\* every exception is caught inside it
update_result(outcome, rows_added) ==
    [success |-> outcome \in {"success", "nodata", "dry_run"},
     rows_added |-> IF outcome = "success" THEN rows_added ELSE 0,
     skipped |-> outcome = "skipped",
     error |-> outcome = "failed"]

UpdateResults ==
    {update_result(outcome, rows_added) :
        outcome \in {"success", "nodata", "dry_run", "skipped", "failed"},
        rows_added \in 0..1}

\* the calls of one of the two loops of run, in order
LoopPairs(symbols, intervals, category) ==
    [k \in 1..(Len(symbols) * Len(intervals)) |->
        [symbol |-> symbols[((k - 1) \div Len(intervals)) + 1],
         interval |-> intervals[((k - 1) % Len(intervals)) + 1],
         category |-> category]]

\* the calls of run: the stocks loop, then the indices loop
Pairs(config) ==
    LoopPairs(config.stocks, config.intervals, "stocks")
    \o LoopPairs(config.indices, config.intervals, "indices")

\* DailyUpdater.__init__: self.stats
NewStats ==
    [total_symbols |-> 0, symbols_updated |-> 0, symbols_skipped |-> 0,
     symbols_failed |-> 0, total_rows_added |-> 0]

\* a loop body that leaves a failed result uncounted
count_result_no_failed(stats, result) ==
    IF result.skipped
    THEN [stats EXCEPT !.symbols_skipped = @ + 1]
    ELSE IF result.success
    THEN [stats EXCEPT !.symbols_updated = @ + 1,
                       !.total_rows_added = @ + result.rows_added]
    ELSE stats

\* the loop body of run after update_symbol returned
count_result(stats, result) ==
    IF result.skipped
    THEN [stats EXCEPT !.symbols_skipped = @ + 1]
    ELSE IF result.success
    THEN [stats EXCEPT !.symbols_updated = @ + 1,
                       !.total_rows_added = @ + result.rows_added]
    ELSE [stats EXCEPT !.symbols_failed = @ + 1]

Configs ==
    {[stocks |-> [i \in 1..n |-> i], indices |-> [i \in 1..m |-> n + i],
      intervals |-> intervals] :
        n \in 0..MaxStocks, m \in 0..MaxIndices,
        intervals \in {<<>>, <<"1d">>, <<"1d", "5m">>}}

BatchIdle ==
    /\ b_config = [stocks |-> <<>>, indices |-> <<>>, intervals |-> <<>>]
    /\ b_date = "none"
    /\ b_pc = "idle"
    /\ b_done = <<>>
    /\ b_stats = NewStats

BatchInit ==
    /\ b_config \in Configs
    /\ b_date \in {"none", "valid", "invalid"}
    /\ b_pc = "start"
    /\ b_done = <<>>
    /\ b_stats = NewStats

BatchOnly ==
    UNCHANGED <<mergeVars, retryVars, reportVars, ledgerVars, syncVars,
                gapVars, histVars, callVars, gateVars>>

\* run up to the loops: an unparsable specific_date returns at once
RunStart ==
    /\ b_pc = "start"
    /\ IF b_date = "invalid"
       THEN b_pc' = "done" /\ UNCHANGED b_stats
       ELSE /\ b_pc' = "loop"
            /\ b_stats' = [b_stats EXCEPT !.total_symbols =
                              Len(b_config.stocks) + Len(b_config.indices)]
    /\ UNCHANGED <<b_config, b_date, b_done>>
    /\ BatchOnly

\* one pass of a loop body: update_symbol on the next pair, then the counters
RunUpdate(result) ==
    /\ b_pc = "loop"
    /\ Len(b_done) < Len(Pairs(b_config))
    /\ b_done' = Append(b_done, [call |-> Pairs(b_config)[Len(b_done) + 1],
                                 result |-> result])
    /\ b_stats' = count_result(b_stats, result)
    /\ UNCHANGED <<b_config, b_date, b_pc>>
    /\ BatchOnly

\* both loops are over: _generate_summary_report
RunSummary ==
    /\ b_pc = "loop"
    /\ Len(b_done) = Len(Pairs(b_config))
    /\ b_pc' = "done"
    /\ UNCHANGED <<b_config, b_date, b_done, b_stats>>
    /\ BatchOnly

\* no history harness
HistoryIdle == h_all = <<>>

CallIdle ==
    /\ call_args = [none |-> TRUE]
    /\ call_result = [none |-> TRUE]
    /\ call_pc = "idle"

---------------------------------------------------------------------------
(* The download history of one metadata file under a sequence of calls of   *)
(* update_metadata and record_download_failure, one call per tick.          *)

\* the stats of a call that added the given rows
HistoryStats(rows_added) ==
    [total_rows |-> 1, rows_added |-> rows_added,
     date_range |-> [start |-> 1, end |-> 1]]

\* the metadata file after n calls of update_metadata(symbol, interval,
\* HistoryStats(0)) at the ticks 1..n, n <= HistoryCap: created by the first
\* call, last updated by the n-th, one history entry per call
AfterUpdates(n) ==
    IF n = 0 THEN NoMetaFile
    ELSE save_metadata(
            [create_default_metadata(TheSymbol, TheInterval, 1) EXCEPT
                !.last_update = n,
                !.total_rows = HistoryStats(0).total_rows,
                !.date_range = HistoryStats(0).date_range,
                !.download_history =
                    [i \in 1..n |-> update_entry(HistoryStats(0), i)]])

\* the harness starts before the first call, or just below or at the cap
PriorCalls == {0, HistoryCap - 2, HistoryCap - 1, HistoryCap}

HistoryInit ==
    \E n \in PriorCalls :
        /\ meta_file = AfterUpdates(n)
        /\ h_all = [i \in 1..n |-> update_entry(HistoryStats(0), i)]
        /\ clock = n + 1
        /\ attempts = 0
        /\ csv_file = NoCsv
        /\ backups = <<>>
        /\ committed = NoCommit
        /\ p_last = NoAttempt

HistoryOnly ==
    UNCHANGED <<mergeVars, retryVars, reportVars, ledgerVars, gapVars,
                batchVars, callVars, gateVars, csv_file, backups, committed,
                p_last>>

\* metadata_manager.update_metadata(symbol, interval, stats)
HistoryUpdate(rows_added) ==
    /\ attempts < MaxCalls
    /\ meta_file' = save_metadata(updated_metadata(
                        meta_file, TheSymbol, TheInterval,
                        HistoryStats(rows_added), NoValidationReport, clock))
    /\ h_all' = Append(h_all, update_entry(HistoryStats(rows_added), clock))
    /\ clock' = clock + 1
    /\ attempts' = attempts + 1
    /\ HistoryOnly

\* metadata_manager.record_download_failure(symbol, interval, error_message)
HistoryFailure ==
    /\ attempts < MaxCalls
    /\ meta_file' = record_download_failure(meta_file, TheSymbol, TheInterval,
                                            "DataFetchError", clock)
    /\ h_all' = Append(h_all, failure_entry_of("DataFetchError", clock))
    /\ clock' = clock + 1
    /\ attempts' = attempts + 1
    /\ HistoryOnly

---------------------------------------------------------------------------
(* Single calls of MetadataManager.needs_update *)

\* the ages in minutes the harness tries: a clock set back, none, one hour,
\* and a minute either side of one and two days
Ages ==
    {0 - MinutesPerHour, 0, MinutesPerHour,
     MinutesPerDay - 1, MinutesPerDay, MinutesPerDay + 1,
     2 * MinutesPerDay - 1, 2 * MinutesPerDay}

NeedsUpdateArgs ==
    {[fn |-> "needs_update", last_update |-> last_update, parsable |-> parsable,
      now |-> last_update + age, max_age_hours |-> max_age_hours] :
        last_update \in {None} \cup 1..MaxLastUpdate, parsable \in BOOLEAN,
        age \in Ages, max_age_hours \in {1, 24, 48}}

CallOnly ==
    UNCHANGED <<mergeVars, retryVars, reportVars, ledgerVars, syncVars,
                gapVars, batchVars, histVars, gateVars>>

\* manager.needs_update(symbol, interval, max_age_hours)
CallNeedsUpdate ==
    /\ call_pc = "args"
    /\ call_args.fn = "needs_update"
    /\ call_result' = [none |-> FALSE,
                       value |-> needs_update_at(call_args.last_update,
                                                 call_args.parsable,
                                                 call_args.now,
                                                 call_args.max_age_hours)]
    /\ call_pc' = "returned"
    /\ UNCHANGED call_args
    /\ CallOnly

---------------------------------------------------------------------------
(* The fetch range of a daily update.  Datetimes are minutes, a date is the *)
(* day number of a datetime (strftime('%Y-%m-%d')), dates start at 1.       *)

\* DataFetcher.INTERVAL_LIMITS, in days (None: unlimited)
INTERVAL_LIMITS ==
    [interval \in {"1m", "2m", "5m", "15m", "30m", "60m", "90m", "1h", "1d",
                   "5d", "1wk", "1mo", "3mo"} |->
        CASE interval = "1m" -> 7
          [] interval \in {"2m", "5m", "15m", "30m", "90m"} -> 60
          [] interval \in {"60m", "1h"} -> 730
          [] OTHER -> None]

\* a fetcher for which every interval is unlimited
get_max_period_unlimited(interval) == None

\* DataFetcher.get_max_period: INTERVAL_LIMITS.get(interval)
get_max_period(interval) ==
    IF interval \in DOMAIN INTERVAL_LIMITS THEN INTERVAL_LIMITS[interval]
    ELSE None

\* interval.endswith('m') or interval.endswith('h') on the intervals used
EndsWithMOrH == {"1m", "2m", "5m", "15m", "30m", "60m", "90m", "1h", "4h"}

\* a step of one day whatever the interval
calculate_next_date_one_day(last_date, interval) == last_date + MinutesPerDay

\* MetadataManager._calculate_next_date
calculate_next_date(last_date, interval) ==
    IF interval \in EndsWithMOrH THEN last_date + MinutesPerDay
    ELSE IF interval = "1d" THEN last_date + MinutesPerDay
    ELSE IF interval = "1wk" THEN last_date + 7 * MinutesPerDay
    ELSE IF interval = "1mo" THEN last_date + 30 * MinutesPerDay
    ELSE last_date + MinutesPerDay

\* MetadataManager.get_next_fetch_date on the loaded document: recorded_end
\* is date_range.end as a datetime; one that fromisoformat rejects gives None
get_next_fetch_date(recorded_end, parsable, interval) ==
    IF recorded_end = None THEN None
    ELSE IF ~parsable THEN None
    ELSE calculate_next_date(recorded_end, interval)

\* the period of a result: None, "max", or "<days>d"
NoPeriod == [token |-> "None", days |-> 0]

PeriodMax == [token |-> "max", days |-> 0]

PeriodDays(days) == [token |-> "d", days |-> days]

\* DailyUpdater._calculate_fetch_range: (start_date, end_date, period)
calculate_fetch_range(recorded_end, parsable, interval, specific_date, now_minutes) ==
    LET last_date == get_next_fetch_date(recorded_end, parsable, interval)
        max_period == get_max_period(interval)
    IN  IF specific_date # None
        THEN [start_date |-> Date(specific_date),
              end_date |-> Date(specific_date + MinutesPerDay),
              period |-> NoPeriod]
        ELSE IF last_date = None
        THEN [start_date |-> None, end_date |-> None,
              period |-> IF max_period = None THEN PeriodMax
                         ELSE PeriodDays(max_period)]
        ELSE [start_date |-> Date(last_date), end_date |-> Date(now_minutes),
              period |-> NoPeriod]

\* the datetimes of the dates 1..MaxDate: midnight and a quarter past ten
RangeTimes == {d * MinutesPerDay + m : d \in 1..MaxDate, m \in {0, 615}}

RangeIntervals == {"1m", "5m", "60m", "1h", "4h", "1d", "1wk", "1mo", "3mo"}

FetchRangeArgs ==
    {[fn |-> "calculate_fetch_range", recorded_end |-> recorded_end,
      parsable |-> parsable, interval |-> interval,
      specific_date |-> specific_date, now |-> now_minutes] :
        recorded_end \in {None} \cup RangeTimes, parsable \in BOOLEAN,
        interval \in RangeIntervals,
        specific_date \in {None} \cup {d * MinutesPerDay : d \in 1..MaxDate},
        now_minutes \in {d * MinutesPerDay + 615 : d \in 1..MaxDate}}

NextDateArgs ==
    {[fn |-> "get_next_fetch_date", recorded_end |-> recorded_end,
      parsable |-> parsable, interval |-> interval] :
        recorded_end \in {None} \cup RangeTimes, parsable \in BOOLEAN,
        interval \in RangeIntervals \cup {"5d"}}

\* manager.get_next_fetch_date(symbol, interval)
CallNextFetchDate ==
    /\ call_pc = "args"
    /\ call_args.fn = "get_next_fetch_date"
    /\ call_result' = [none |-> FALSE,
                       value |-> get_next_fetch_date(call_args.recorded_end,
                                                     call_args.parsable,
                                                     call_args.interval)]
    /\ call_pc' = "returned"
    /\ UNCHANGED call_args
    /\ CallOnly

\* self._calculate_fetch_range(symbol, interval, specific_date)
CallFetchRange ==
    /\ call_pc = "args"
    /\ call_args.fn = "calculate_fetch_range"
    /\ call_result' = [none |-> FALSE,
                       value |-> calculate_fetch_range(
                                    call_args.recorded_end, call_args.parsable,
                                    call_args.interval, call_args.specific_date,
                                    call_args.now)]
    /\ call_pc' = "returned"
    /\ UNCHANGED call_args
    /\ CallOnly

---------------------------------------------------------------------------
(* Single calls of MetadataManager.load_metadata on the file of the entity  *)

\* the documents one call of update_metadata or record_download_failure
\* leaves for an entity
FirstDocuments ==
    {updated_metadata(NoMetaFile, symbol, interval, HistoryStats(rows_added),
                      NoValidationReport, t) :
        symbol \in Symbols, interval \in VIntervals, rows_added \in 0..1,
        t \in 1..MaxClock}
    \cup {record_download_failure(NoMetaFile, symbol, interval,
                                  "DataFetchError", t).data :
            symbol \in Symbols, interval \in VIntervals, t \in 1..MaxClock}

\* the entity's file: none, a complete one, or one cut off while written
MetaFiles ==
    {NoMetaFile}
    \cup {save_metadata(metadata) : metadata \in FirstDocuments}
    \cup {save_metadata_cut(metadata) : metadata \in FirstDocuments}

LoadInit ==
    /\ meta_file \in MetaFiles
    /\ clock \in 1..MaxClock
    /\ call_args \in {[fn |-> "load_metadata", symbol |-> symbol,
                        interval |-> interval, file |-> meta_file] :
                            symbol \in Symbols, interval \in VIntervals}
    /\ (meta_file.state # "absent" =>
            /\ meta_file.data.symbol = call_args.symbol
            /\ meta_file.data.interval = call_args.interval)
    /\ call_result = [none |-> TRUE]
    /\ call_pc = "args"
    /\ csv_file = NoCsv
    /\ backups = <<>>
    /\ committed = NoCommit
    /\ attempts = 0
    /\ p_last = NoAttempt

\* manager.load_metadata(symbol, interval): no file is written
LoadMetadata ==
    /\ call_pc = "args"
    /\ call_args.fn = "load_metadata"
    /\ call_result' = [none |-> FALSE,
                       value |-> load_metadata(meta_file, call_args.symbol,
                                               call_args.interval, clock)]
    /\ call_pc' = "returned"
    /\ UNCHANGED call_args
    /\ CallOnly

---------------------------------------------------------------------------
(* Single calls of DataValidator.check_gaps *)

\* the check_gaps harness builds series of at most MaxGapRows rows
MaxGapRows == 3

\* Monday 09:15, 09:20, 09:30, 12:30 and 12:35, and 09:15 of the days 1, 5, 6
\* and 20 after it
GapTimes ==
    {MarketOpen + m : m \in {0, 5, 15, 195, 200}}
    \cup {MarketOpen + d * MinutesPerDay : d \in {1, 5, 6, 20}}

GapIntervals == {"5m", "1h", "90m", "1d", "1wk"}

\* the sound series with rows at the given times
GapFrames(n) ==
    {Frame(RequiredCols, [i \in 1..Len(times) |-> Ohlcv(times[i], 10, 12, 9, 11, 100)]) :
        times \in UNION {SeqsOfLen(GapTimes, k) : k \in 0..n}}

CheckGapsInit ==
    /\ call_args \in {[fn |-> "check_gaps", df |-> df, interval |-> interval] :
                        df \in GapFrames(MaxGapRows), interval \in GapIntervals}
    /\ call_result = [none |-> TRUE]
    /\ call_pc = "args"

\* validator.check_gaps(df, interval)
CallCheckGaps ==
    /\ call_pc = "args"
    /\ call_args.fn = "check_gaps"
    /\ call_result' = [none |-> FALSE,
                       value |-> check_gaps(call_args.df, call_args.interval)]
    /\ call_pc' = "returned"
    /\ UNCHANGED call_args
    /\ CallOnly

---------------------------------------------------------------------------
(* DataFetcher: the rate limit of fetch_data, with workers that share one   *)
(* DataFetcher.  Time is in ticks of a quarter of a second.                 *)

FetchWorkers == 1..2

\* DataFetcher.__init__'s default rate_limit_delay=0.5, in ticks
rate_limit_delay == 2

\* the clock of the harness stops at MaxGateTime
MaxGateTime == 6

\* the harness makes at most MaxRequests provider requests
MaxRequests == 3

GateOnly ==
    UNCHANGED <<mergeVars, retryVars, reportVars, ledgerVars, syncVars,
                gapVars, batchVars, histVars, callVars>>

GateIdle ==
    /\ f_time = 0
    /\ last_request_time = 0
    /\ f_pc = [w \in FetchWorkers |-> "idle"]
    /\ f_wake = [w \in FetchWorkers |-> 0]
    /\ f_passed = <<>>

\* DataFetcher.__init__: last_request_time = 0, and time.time() is far from 0
GateInit ==
    /\ f_time = rate_limit_delay
    /\ last_request_time = 0
    /\ f_pc = [w \in FetchWorkers |-> "idle"]
    /\ f_wake = [w \in FetchWorkers |-> 0]
    /\ f_passed = <<>>

\* the workers inside fetch_data
InFlight == {w \in FetchWorkers : f_pc[w] # "idle"}

\* fetch_data up to self._apply_rate_limit() of one attempt of its loop
FetchData(w) ==
    /\ f_pc[w] = "idle"
    /\ Len(f_passed) + Cardinality(InFlight) < MaxRequests
    /\ f_pc' = [f_pc EXCEPT ![w] = "read"]
    /\ UNCHANGED <<f_time, last_request_time, f_wake, f_passed>>
    /\ GateOnly

\* _apply_rate_limit: current_time, elapsed, and the test elapsed <
\* rate_limit_delay
ReadClock(w) ==
    /\ f_pc[w] = "read"
    /\ LET current_time == f_time
           elapsed == current_time - last_request_time
       IN  IF elapsed < rate_limit_delay
           THEN /\ f_pc' = [f_pc EXCEPT ![w] = "sleeping"]
                /\ f_wake' = [f_wake EXCEPT ![w] = f_time + (rate_limit_delay - elapsed)]
           ELSE /\ f_pc' = [f_pc EXCEPT ![w] = "stamp"]
                /\ UNCHANGED f_wake
    /\ UNCHANGED <<f_time, last_request_time, f_passed>>
    /\ GateOnly

\* time.sleep(sleep_time) returns
Wake(w) ==
    /\ f_pc[w] = "sleeping"
    /\ f_time >= f_wake[w]
    /\ f_pc' = [f_pc EXCEPT ![w] = "stamp"]
    /\ UNCHANGED <<f_time, last_request_time, f_wake, f_passed>>
    /\ GateOnly

\* self.last_request_time = time.time(), and _apply_rate_limit returns
Stamp(w) ==
    /\ f_pc[w] = "stamp"
    /\ last_request_time' = f_time
    /\ f_passed' = Append(f_passed, f_time)
    /\ f_pc' = [f_pc EXCEPT ![w] = "request"]
    /\ UNCHANGED <<f_time, f_wake>>
    /\ GateOnly

\* ticker.history(...) returns or raises; the attempt is over
Request(w) ==
    /\ f_pc[w] = "request"
    /\ f_pc' = [f_pc EXCEPT ![w] = "idle"]
    /\ UNCHANGED <<f_time, last_request_time, f_wake, f_passed>>
    /\ GateOnly

\* time passes
GateTick ==
    /\ f_time < MaxGateTime
    /\ f_time' = f_time + 1
    /\ UNCHANGED <<last_request_time, f_pc, f_wake, f_passed>>
    /\ GateOnly

---------------------------------------------------------------------------
(* The fetch of update_symbol: retry_with_backoff(fetch_data, max_retries=3) *)
(* around the retry loop of DataFetcher.fetch_data                          *)

\* the harness gives the DataFetcher a max_retries of 0..MaxFetcherRetries
MaxFetcherRetries == 3

\* a plausible slip: one outer attempt more
UpdateRetriesOneMore == 3 + 1

\* update_symbol's retry_with_backoff(..., max_retries=3, ...)
UpdateRetries == 3

\* what the provider does on its k-th call: "ok" is a non-empty frame, "fail"
\* an exception or an empty answer
ProviderAnswer(answers, k) == IF k <= Len(answers) THEN answers[k] ELSE "fail"

\* the loop of fetch_data from the given attempt on, after calls provider
\* calls: whether it returned a frame, and the provider calls made so far
RECURSIVE fetch_data_from(_, _, _, _)
fetch_data_from(answers, calls, attempt, max_retries) ==
    IF attempt \notin 1..max_retries THEN [ok |-> FALSE, calls |-> calls]
    ELSE IF ProviderAnswer(answers, calls + 1) = "ok"
    THEN [ok |-> TRUE, calls |-> calls + 1]
    ELSE IF attempt < max_retries
    THEN fetch_data_from(answers, calls + 1, attempt + 1, max_retries)
    ELSE [ok |-> FALSE, calls |-> calls + 1]

\* retry_with_backoff around fetch_data from the given attempt on
RECURSIVE retry_fetch_from(_, _, _, _)
retry_fetch_from(answers, calls, attempt, fetcher_max_retries) ==
    IF attempt \notin attempt_range(UpdateRetries)
    THEN [outcome |-> "RetryError", calls |-> calls]
    ELSE LET r == fetch_data_from(answers, calls, 1, fetcher_max_retries)
         IN  IF r.ok THEN [outcome |-> "returned", calls |-> r.calls]
             ELSE IF should_retry(attempt, UpdateRetries)
             THEN retry_fetch_from(answers, r.calls, attempt + 1, fetcher_max_retries)
             ELSE [outcome |-> "RetryError", calls |-> r.calls]

\* a DataFetcher's max_retries and what the provider does on each call the
\* nested loops can make
FetchRetryArgs ==
    UNION {{[fn |-> "retry_fetch", max_retries |-> m, answers |-> a] :
                a \in SeqsOfLen({"ok", "fail"}, 3 * m)} : m \in 0..MaxFetcherRetries}

FetchRetryInit ==
    /\ call_args \in FetchRetryArgs
    /\ call_result = [none |-> TRUE]
    /\ call_pc = "args"

\* new_df = self.retry_manager.retry_with_backoff(self.data_fetcher.fetch_data,
\* max_retries=3, ...)
CallRetryFetch ==
    /\ call_pc = "args"
    /\ call_args.fn = "retry_fetch"
    /\ call_result' = [none |-> FALSE,
                       value |-> retry_fetch_from(call_args.answers, 0, 1,
                                                  call_args.max_retries)]
    /\ call_pc' = "returned"
    /\ UNCHANGED call_args
    /\ CallOnly

---------------------------------------------------------------------------
(* Specifications: one per component, the other components at rest *)

InitMerge ==
    /\ MergeInit /\ RetryIdle /\ ReportIdle /\ LedgerIdle /\ SyncIdle
    /\ GapIdle /\ BatchIdle /\ GateIdle /\ HistoryIdle /\ CallIdle

NextMerge == MergeData

SpecMerge == InitMerge /\ [][NextMerge]_vars

InitRetry ==
    /\ RetryIdle /\ MergeIdle /\ ReportIdle /\ LedgerIdle /\ SyncIdle
    /\ GapIdle /\ BatchIdle /\ GateIdle /\ HistoryIdle /\ CallIdle

NextRetry ==
    \/ \E args \in RetryArgs : RetryCall(args)
    \/ FuncReturns
    \/ FuncRaises

SpecRetry == InitRetry /\ [][NextRetry]_vars

InitReport ==
    /\ ReportInit /\ MergeIdle /\ RetryIdle /\ LedgerIdle /\ SyncIdle
    /\ GapIdle /\ BatchIdle /\ GateIdle /\ HistoryIdle /\ CallIdle

NextReport ==
    \/ \E category \in {"data_quality", "gaps"}, severity \in Severities :
            AddIssue(category, severity)
    \/ ValidateArgs
    \/ ValidateDataframe

SpecReport == InitReport /\ [][NextReport]_vars

InitLedger ==
    /\ LedgerInit /\ MergeIdle /\ RetryIdle /\ ReportIdle /\ SyncIdle
    /\ GapIdle /\ BatchIdle /\ GateIdle /\ HistoryIdle /\ CallIdle

NextLedger ==
    \/ \E m \in Managers : Construct(m)
    \/ \E w \in Workers, symbol \in Symbols :
            LogFailureAppend(w, symbol, "1d", Error(1))
    \/ \E w \in Workers : LogFailureSave(w)
    \/ \E w \in Workers, hook \in {"returns", "raises"} : LogFailureAlert(w, hook)

SpecLedger == InitLedger /\ [][NextLedger]_vars

\* The scripts construct one RetryManager on an empty log directory.  The
\* data directory is empty, or holds the entity as an initial download at
\* tick 1 left it.
InitSync ==
    /\ \E st \in {FreshRun} \cup DownloadedRun :
          /\ csv_file = st.csv
          /\ backups = st.backups
          /\ meta_file = st.meta
          /\ committed = st.committed
    /\ clock = 1
    /\ attempts = 0
    /\ p_last = NoAttempt
    /\ failure_log = NoFile
    /\ failures = [m \in Managers |-> <<>>]
    /\ constructed = [m \in Managers |-> m = 1]
    /\ w_pc = [w \in Workers |-> "idle"]
    /\ w_entry = [w \in Workers |-> NoEntry]
    /\ w_alert = [w \in Workers |-> "none"]
    /\ now = 0
    /\ logged = {}
    /\ MergeIdle /\ RetryIdle /\ ReportIdle /\ GapIdle
    /\ BatchIdle /\ GateIdle /\ HistoryIdle /\ CallIdle

NextSync ==
    \/ UpdateSymbol
    \/ DownloadSymbol
    \/ FillGap
    \/ MergeAndSave
    \/ FollowingUpdate
    \/ Tick

SpecSync == InitSync /\ [][NextSync]_vars

InitGaps ==
    /\ GapInit
    /\ MergeIdle /\ RetryIdle /\ ReportIdle /\ LedgerIdle /\ SyncIdle
    /\ BatchIdle /\ GateIdle /\ HistoryIdle /\ CallIdle

NextGaps == IdentifyGaps

SpecGaps == InitGaps /\ [][NextGaps]_vars

InitBatch ==
    /\ BatchInit
    /\ MergeIdle /\ RetryIdle /\ ReportIdle /\ LedgerIdle /\ SyncIdle
    /\ GapIdle /\ GateIdle /\ HistoryIdle /\ CallIdle

NextBatch ==
    \/ RunStart
    \/ \E result \in UpdateResults : RunUpdate(result)
    \/ RunSummary

SpecBatch == InitBatch /\ [][NextBatch]_vars

InitHistory ==
    /\ HistoryInit
    /\ MergeIdle /\ RetryIdle /\ ReportIdle /\ LedgerIdle
    /\ GapIdle /\ BatchIdle /\ GateIdle /\ CallIdle

NextHistory ==
    \/ \E rows_added \in 0..1 : HistoryUpdate(rows_added)
    \/ HistoryFailure

SpecHistory == InitHistory /\ [][NextHistory]_vars

InitNeeds ==
    /\ call_args \in NeedsUpdateArgs
    /\ call_result = [none |-> TRUE]
    /\ call_pc = "args"
    /\ MergeIdle /\ RetryIdle /\ ReportIdle /\ LedgerIdle /\ SyncIdle
    /\ GapIdle /\ BatchIdle /\ GateIdle /\ HistoryIdle

NextNeeds == CallNeedsUpdate

SpecNeeds == InitNeeds /\ [][NextNeeds]_vars

InitRange ==
    /\ call_args \in FetchRangeArgs \cup NextDateArgs
    /\ call_result = [none |-> TRUE]
    /\ call_pc = "args"
    /\ MergeIdle /\ RetryIdle /\ ReportIdle /\ LedgerIdle /\ SyncIdle
    /\ GapIdle /\ BatchIdle /\ GateIdle /\ HistoryIdle

NextRange ==
    \/ CallFetchRange
    \/ CallNextFetchDate

SpecRange == InitRange /\ [][NextRange]_vars

InitLoad ==
    /\ LoadInit
    /\ MergeIdle /\ RetryIdle /\ ReportIdle /\ LedgerIdle
    /\ GapIdle /\ BatchIdle /\ GateIdle /\ HistoryIdle

NextLoad == LoadMetadata

SpecLoad == InitLoad /\ [][NextLoad]_vars

InitGapCheck ==
    /\ CheckGapsInit
    /\ MergeIdle /\ RetryIdle /\ ReportIdle /\ LedgerIdle /\ SyncIdle
    /\ GapIdle /\ BatchIdle /\ GateIdle /\ HistoryIdle

NextGapCheck == CallCheckGaps

SpecGapCheck == InitGapCheck /\ [][NextGapCheck]_vars

InitGate ==
    /\ GateInit
    /\ MergeIdle /\ RetryIdle /\ ReportIdle /\ LedgerIdle /\ SyncIdle
    /\ GapIdle /\ BatchIdle /\ HistoryIdle /\ CallIdle

NextGate ==
    \/ \E w \in FetchWorkers : FetchData(w)
    \/ \E w \in FetchWorkers : ReadClock(w)
    \/ \E w \in FetchWorkers : Wake(w)
    \/ \E w \in FetchWorkers : Stamp(w)
    \/ \E w \in FetchWorkers : Request(w)
    \/ GateTick

SpecGate == InitGate /\ [][NextGate]_vars

InitFetchRetry ==
    /\ FetchRetryInit
    /\ MergeIdle /\ RetryIdle /\ ReportIdle /\ LedgerIdle /\ SyncIdle
    /\ GapIdle /\ BatchIdle /\ GateIdle /\ HistoryIdle

NextFetchRetry == CallRetryFetch

SpecFetchRetry == InitFetchRetry /\ [][NextFetchRetry]_vars

---------------------------------------------------------------------------
(* Claims about merge_data, under SpecMerge *)

\* the number of rows of a row sequence at timestamp t
CountAt(rows, t) == Cardinality({i \in 1..Len(rows) : rows[i].ts = t})

\* the last row of a row sequence at timestamp t (there is one)
LastAt(rows, t) ==
    rows[CHOOSE i \in 1..Len(rows) :
            /\ rows[i].ts = t
            /\ \A j \in (i + 1)..Len(rows) : rows[j].ts # t]

MergeReturned == mpc = "returned"

IncomingEmpty == new_df.none \/ IsEmpty(new_df)

\* C1: when the incoming series is not empty, every timestamp that the
\* existing and the incoming series share has exactly one row in the merged
\* series, and that row is the incoming one (the last incoming one at that
\* timestamp); the overlap scenario gives (1,100), (2,105), (3,102).
C1_IncomingWins ==
    (MergeReturned /\ ~IncomingEmpty) =>
        /\ \A t \in TsSet(existing_df.rows) \cap TsSet(new_df.rows) :
              /\ CountAt(merged_df.rows, t) = 1
              /\ \A i \in 1..Len(merged_df.rows) :
                    merged_df.rows[i].ts = t =>
                        merged_df.rows[i] = LastAt(new_df.rows, t)
        /\ (existing_df = ScenarioExisting /\ new_df = ScenarioIncoming) =>
              merged_df.rows = <<Bar(1, 100), Bar(2, 105), Bar(3, 102)>>

\* the overlap scenario has been merged, and the shared day differs in value
C1_Witness ==
    /\ MergeReturned
    /\ existing_df = ScenarioExisting
    /\ new_df = ScenarioIncoming
    /\ Len(merged_df.rows) = 3
    /\ merged_df.rows[2].Close # existing_df.rows[2].Close

\* C2 as stated: whatever the inputs, an empty incoming series included, the
\* merged series has strictly increasing timestamps (hence no duplicate).
C2_AlwaysAscending ==
    MergeReturned =>
        (StrictlyAscending(merged_df.rows) /\ ~has_duplicates(merged_df.rows))

\* C2 amended: when the incoming series is not empty, the merged series has
\* strictly increasing timestamps and no duplicate timestamp, whatever the
\* row order and the duplicates of the inputs.
C2_AscendingWhenIncoming ==
    (MergeReturned /\ ~IncomingEmpty) =>
        (StrictlyAscending(merged_df.rows) /\ ~has_duplicates(merged_df.rows))

\* an existing series out of order, a timestamp in both series, and merged
C2_Witness ==
    /\ MergeReturned
    /\ ~IncomingEmpty
    /\ ~existing_df.none
    /\ ~is_monotonic_increasing(existing_df.rows)
    /\ has_duplicates(existing_df.rows \o new_df.rows)
    /\ Len(merged_df.rows) >= 2

\* C3: with an empty incoming series merge_data returns the existing series,
\* the same rows in the same order, and an empty series when there is none.
C3_EmptyIncomingIsIdentity ==
    (MergeReturned /\ IncomingEmpty) =>
        IF existing_df.none
        THEN ~merged_df.none /\ merged_df.rows = <<>>
        ELSE merged_df = existing_df

\* an empty incoming series merged into an unsorted series with a duplicate
C3_Witness ==
    /\ MergeReturned
    /\ IncomingEmpty
    /\ ~existing_df.none
    /\ ~is_monotonic_increasing(existing_df.rows)
    /\ has_duplicates(existing_df.rows)
    /\ merged_df.rows = existing_df.rows

---------------------------------------------------------------------------
(* Claims about retry_with_backoff, under SpecRetry *)

AllFailed == \A i \in 1..Len(r_outcomes) : r_outcomes[i] = "fail"

\* C8: while fewer than max_retries calls have failed the operation is called
\* again (no early give-up); when it succeeds on call k+1 after k failures,
\* k < max_retries, retry_with_backoff returns the value of that call, and
\* that call is the last one.
C8_SuccessAfterKFailures ==
    /\ r_pc = "loop" =>
          /\ AllFailed
          /\ Len(r_outcomes) = r_attempt - 1
          /\ r_attempt <= r_args.max_retries
    /\ r_pc = "raised" => Len(r_outcomes) >= r_args.max_retries
    /\ (\E i \in 1..Len(r_outcomes) : r_outcomes[i] = "ok") => r_pc = "returned"
    /\ r_pc = "returned" =>
          LET k == Len(r_outcomes) - 1
          IN  /\ k < r_args.max_retries
              /\ \A i \in 1..k : r_outcomes[i] = "fail"
              /\ r_outcomes[k + 1] = "ok"
              /\ r_result = Value(k + 1)

\* two failures, then success, with max_retries = 5: returned after 3 calls
C8_Witness ==
    /\ r_pc = "returned"
    /\ r_args.max_retries = 5
    /\ r_outcomes = <<"fail", "fail", "ok">>
    /\ r_result = Value(3)

\* C9: for max_retries >= 1, an operation that fails on every call is called
\* exactly max_retries times; then RetryError is raised with the last
\* underlying error as its cause, and no value is returned.
C9_ExhaustedRaises ==
    /\ (r_pc # "idle" /\ r_args.max_retries >= 1) =>
          /\ Len(r_outcomes) <= r_args.max_retries
          /\ (AllFailed /\ Len(r_outcomes) = r_args.max_retries) => r_pc = "raised"
    /\ (r_pc = "raised" /\ r_args.max_retries >= 1) =>
          /\ AllFailed
          /\ Len(r_outcomes) = r_args.max_retries
          /\ r_cause = Error(r_args.max_retries)
          /\ r_result = None

\* three failures with max_retries = 3: RetryError caused by the third error
C9_Witness ==
    /\ r_pc = "raised"
    /\ r_args.max_retries = 3
    /\ r_outcomes = <<"fail", "fail", "fail">>
    /\ r_cause = Error(3)

---------------------------------------------------------------------------
(* ValidationReport claims *)

HasSevere(rep) ==
    \E i \in 1..Len(rep.issues) : rep.issues[i].severity \in {"error", "critical"}

HasSeverity(rep, severity) ==
    \E i \in 1..Len(rep.issues) : rep.issues[i].severity = severity

\* C10: a report's is_valid is false exactly when at least one of its issues
\* has severity error or critical, after any sequence of add_issue calls and
\* for every report validate_dataframe returns.
C10_IsValidIffNoSevereIssue ==
    v_pc \in {"new", "added", "validated"} => (~report.is_valid <=> HasSevere(report))

\* validate_dataframe returned, for a frame with rows, a report whose only
\* severe issue is critical
C10_Witness ==
    /\ v_pc = "validated"
    /\ Len(v_args.df.rows) > 0
    /\ HasSeverity(report, "critical")
    /\ ~HasSeverity(report, "error")
    /\ ~report.is_valid

---------------------------------------------------------------------------
(* Failure ledger claims, under SpecLedger *)

\* no log_failure call is in progress
LedgerQuiet == \A w \in Workers : w_pc[w] = "idle"

\* C7: when workers, on one RetryManager or on two that share the ledger
\* file, interleave log_failure calls, every entry whose log_failure has
\* returned is in the file once the calls are over.
C7_NoRecordLost ==
    LedgerQuiet => \A entry \in logged : entry \in Range(failure_log.content)

---------------------------------------------------------------------------
(* Pipeline claims, under SpecSync *)

\* the last run ended in the pipeline's except clause
FailedRun == p_last.outcome = "failed"

\* the ledger file holds one entry more than before the run, for the entity
OneFailureRecord ==
    /\ Len(failure_log.content) = p_last.ledger_before + 1
    /\ failure_log.content[Len(failure_log.content)].symbol = TheSymbol
    /\ failure_log.content[Len(failure_log.content)].interval = TheInterval

\* the metadata file is as it was before the run
CursorUnchanged == meta_file = p_last.meta_before

\* needs_update answers True for the entity now
NeedsUpdateNow == needs_update(meta_file, TheSymbol, TheInterval, 24, clock)

C5_SavedOnlyQuickValidated == p_last.saved => quick_validate(csv_file.df)

\* C6: after a run that was killed, load_metadata returns the last metadata
\* that was committed.
C6_CrashKeepsCommitted ==
    p_last.outcome = "crashed" /\ committed.exists =>
        load_metadata(meta_file, TheSymbol, TheInterval, clock) = committed.data

---------------------------------------------------------------------------
(* Validator claims, under SpecReport *)

\* validate_dataframe has returned for a frame with rows
Validated == v_pc = "validated" /\ Len(v_args.df.rows) > 0

\* the frame has every required column
Complete(df) == RequiredCols \subseteq df.cols

\* a row with High < Low, a negative price or a negative volume
BadRow(r) ==
    \/ Lt(r.High, r.Low)
    \/ \E k \in 1..Len(PriceCols) : Lt(r[PriceCols[k]], 0)
    \/ Lt(r.Volume, 0)

HasIssue(rep, category, severity) ==
    \E i \in 1..Len(rep.issues) :
        rep.issues[i].category = category /\ rep.issues[i].severity = severity

FirstAtTs(rows, i) == \A j \in 1..(i - 1) : rows[j].ts # rows[i].ts

---------------------------------------------------------------------------
(* Gap classifier claims, under SpecGaps *)

\* the days missing between the rows around gap k of g_gaps
MissingDays(k) ==
    LET rows == g_file.df.rows
        i == g_gaps[k].index
    IN  (Date(rows[i].ts) + 1)..(Date(rows[i + 1].ts) - 1)

\* a day that is no Saturday, Sunday or listed holiday
TradingDay(d) == d % 7 < 5 /\ d \notin Holidays

\* C13: a daily gap whose missing days are all trading days is classified
\* is_expected = false, reason = "trading_day", fixable = true, and no gap
\* that is expected is fixable.
C13_GapsClassifiedByMissingDays ==
    g_pc = "identified" =>
        \A k \in 1..Len(g_gaps) :
            /\ (\A d \in MissingDays(k) : TradingDay(d)) =>
                    /\ ~g_gaps[k].is_valid_gap
                    /\ g_gaps[k].gap_reason = "trading_day"
                    /\ g_gaps[k].fixable
            /\ g_gaps[k].is_valid_gap => ~g_gaps[k].fixable

---------------------------------------------------------------------------
(* Empty provider answer, under SpecSync *)

\* an update run that fetched and got an empty result from the provider
EmptyAnswerRun == p_last.kind = "update" /\ p_last.answer = "empty"

\* C14: an update run whose provider answers with an empty result ends as
\* "no new data": a success that logs no failure record and leaves the series
\* and the metadata unchanged.
C14_EmptyAnswerIsNoNewData ==
    EmptyAnswerRun =>
        /\ p_last.outcome \in {"nodata", "success"}
        /\ Len(failure_log.content) = p_last.ledger_before
        /\ csv_file = p_last.csv_before
        /\ meta_file = p_last.meta_before

---------------------------------------------------------------------------
(* Batch claims, under SpecBatch *)

\* the number of calls made so far whose result satisfies the test
Counted(test(_)) == Cardinality({i \in 1..Len(b_done) : test(b_done[i].result)})

IsSkipped(result) == result.skipped

IsUpdated(result) == ~result.skipped /\ result.success

IsFailed(result) == ~result.skipped /\ ~result.success

\* C15: in a batch run every configured (symbol, interval) pair is attempted
\* exactly once, in order, whatever the earlier attempts returned, and every
\* attempt is counted in exactly one of updated, skipped and failed.
C15_EveryPairCountedOnce ==
    /\ b_stats.symbols_skipped = Counted(IsSkipped)
    /\ b_stats.symbols_updated = Counted(IsUpdated)
    /\ b_stats.symbols_failed = Counted(IsFailed)
    /\ b_stats.symbols_skipped + b_stats.symbols_updated
         + b_stats.symbols_failed = Len(b_done)
    /\ \A i \in 1..Len(b_done) : b_done[i].call = Pairs(b_config)[i]
    /\ b_pc = "done" /\ b_date # "invalid" =>
            /\ Len(b_done) = Len(Pairs(b_config))
            /\ \A i \in 1..Len(b_done), j \in 1..Len(b_done) :
                    b_done[i].call = b_done[j].call => i = j

\* a finished batch whose first attempt failed and whose later attempts were
\* made, one updated and one skipped
C15_Witness ==
    /\ b_pc = "done"
    /\ Len(b_done) >= 3
    /\ b_done[1].result.error
    /\ \E i \in 2..Len(b_done) : IsUpdated(b_done[i].result)
    /\ \E i \in 2..Len(b_done) : IsSkipped(b_done[i].result)
    /\ b_stats.symbols_failed = 1

---------------------------------------------------------------------------
(* Download history claims, under SpecHistory *)

\* the last n entries of a sequence
LastEntries(seq, n) ==
    IF Len(seq) > n THEN SubSeq(seq, Len(seq) - n + 1, Len(seq)) ELSE seq

\* C16: after any sequence of update_metadata and record_download_failure
\* calls the download_history of the file holds at most 100 entries, and they
\* are the most recently appended entries in the order they were appended.
C16_HistoryKeepsLastHundred ==
    /\ Len(meta_file.data.download_history) <= 100
    /\ meta_file.data.download_history = LastEntries(h_all, 100)

\* more than 100 entries were appended, by both kinds of call
C16_Witness ==
    /\ Len(h_all) > 100
    /\ Len(meta_file.data.download_history) = 100
    /\ \E i \in 1..100 : ~meta_file.data.download_history[i].success
    /\ meta_file.data.download_history[100].success
    /\ meta_file.data.download_history[100].rows_added = 1

---------------------------------------------------------------------------
(* Staleness claims, under SpecNeeds *)

\* needs_update returned for a document whose last_update, if any, parses
NeedsReturned ==
    call_pc = "returned" /\ call_args.fn = "needs_update" /\ call_args.parsable

\* the age in minutes of the call's document
AgeOf(args) == args.now - args.last_update

\* C17: needs_update is true when there is no last_update or when
\* now - last_update >= max_age_hours, and false otherwise: true at 48 h with
\* a limit of 24 h, false at 1 h, true exactly at the boundary.
C17_StaleIffOldEnough ==
    NeedsReturned =>
        /\ call_result.value =
                (\/ call_args.last_update = None
                 \/ AgeOf(call_args) >= call_args.max_age_hours * 60)
        /\ call_args.last_update # None /\ call_args.max_age_hours = 24 =>
                /\ AgeOf(call_args) = 48 * 60 => call_result.value
                /\ AgeOf(call_args) = 60 => ~call_result.value
                /\ AgeOf(call_args) = 24 * 60 => call_result.value

\* a document exactly 24 hours old at a limit of 24 hours answered true
C17_Witness ==
    /\ NeedsReturned
    /\ call_args.last_update # None
    /\ call_args.max_age_hours = 24
    /\ AgeOf(call_args) = 24 * 60
    /\ call_result.value

---------------------------------------------------------------------------
(* Staleness gate claims, under SpecSync *)

\* the hours between the document's last_update and the tick t
HoursSince(file, t) == (t - file.data.last_update) * HoursPerTick

\* the last run was a batch update, without target date, of an entity that
\* the run before it had synchronized
FollowedSync == p_last.follows /\ p_last.kind = "update" /\ ~p_last.forced

---------------------------------------------------------------------------
(* Fetch range claims, under SpecRange *)

RangeReturned == call_pc = "returned" /\ call_args.fn = "calculate_fetch_range"

\* the result is a pair of dates and no period
IsDatePair(r) == r.start_date # None /\ r.end_date # None /\ r.period = NoPeriod

\* the result is a lookback token and no dates
IsLookback(r) == r.start_date = None /\ r.end_date = None /\ r.period # NoPeriod

\* C19: _calculate_fetch_range returns either a (start, end) pair of dates or
\* a lookback token, never both and never neither; with a target date d it
\* returns (d, d + 1 day) whatever the recorded end; with no recorded end
\* date (and no target date) it returns "max" for an interval without limit
\* and "<N>d" for an interval limited to N days.
C19_PairOrLookback ==
    RangeReturned =>
        LET r == call_result.value
            a == call_args
        IN  /\ IsDatePair(r) # IsLookback(r)
            /\ a.specific_date # None =>
                    /\ IsDatePair(r)
                    /\ r.start_date = Date(a.specific_date)
                    /\ r.end_date = Date(a.specific_date) + 1
            /\ a.specific_date = None /\ a.recorded_end = None =>
                    /\ IsLookback(r)
                    /\ r.period =
                          IF a.interval \in {"1d", "1wk", "1mo", "3mo", "4h"}
                          THEN PeriodMax
                          ELSE PeriodDays(INTERVAL_LIMITS[a.interval])

\* no recorded end, no target date, five-minute bars: the token is "60d"
C19_Witness ==
    /\ RangeReturned
    /\ call_args.specific_date = None
    /\ call_args.recorded_end = None
    /\ call_args.interval = "5m"
    /\ call_result.value.period = PeriodDays(60)
    /\ call_result.value.start_date = None

\* C20: with a recorded end date and no target date the window starts at the
\* recorded end date itself and ends at today's date.
C20_WindowStartsAtRecordedEnd ==
    RangeReturned /\ call_args.specific_date = None
        /\ call_args.recorded_end # None /\ call_args.parsable =>
            /\ call_result.value.start_date = Date(call_args.recorded_end)
            /\ call_result.value.end_date = Date(call_args.now)

---------------------------------------------------------------------------
(* Next fetch date claims, under SpecRange *)

NextDateReturned ==
    call_pc = "returned" /\ call_args.fn = "get_next_fetch_date"
        /\ call_args.parsable

\* the days the claim adds for an interval
StepDays(interval) ==
    IF interval = "1wk" THEN 7 ELSE IF interval = "1mo" THEN 30 ELSE 1

\* C21: get_next_fetch_date returns None if and only if no date_range.end is
\* recorded; otherwise it returns date_range.end advanced by one day for
\* minute, hour and daily intervals, by 7 days for 1wk and by 30 days for 1mo.
C21_NextDateIsEndPlusStep ==
    NextDateReturned =>
        /\ (call_result.value = None) = (call_args.recorded_end = None)
        /\ call_args.recorded_end # None =>
                call_result.value = call_args.recorded_end
                    + StepDays(call_args.interval) * 1440

\* a weekly series with a recorded end: the next date is seven days later
C21_Witness ==
    /\ NextDateReturned
    /\ call_args.interval = "1wk"
    /\ call_args.recorded_end # None
    /\ call_result.value = call_args.recorded_end + 7 * 1440

---------------------------------------------------------------------------
(* Metadata load claims, under SpecLoad *)

\* load_metadata returned for an entity with no file or an unreadable one
LoadedWithoutFile ==
    call_pc = "returned" /\ call_args.fn = "load_metadata"
        /\ call_args.file.state # "ok"

\* C22: for an entity with no metadata file, or an unreadable one,
\* load_metadata returns a default record with the requested symbol and
\* interval, no last_update, total_rows 0, no date range and an empty
\* history, and the file is as it was before the call.
C22_LoadReturnsDefault ==
    LoadedWithoutFile =>
        /\ ~call_result.none
        /\ call_result.value.symbol = call_args.symbol
        /\ call_result.value.interval = call_args.interval
        /\ call_result.value.last_update = None
        /\ call_result.value.total_rows = 0
        /\ call_result.value.date_range = [start |-> None, end |-> None]
        /\ call_result.value.download_history = <<>>
        /\ meta_file = call_args.file

\* the file was cut off while written and the call returned the default
C22_Witness ==
    /\ LoadedWithoutFile
    /\ call_args.file.state = "partial"
    /\ call_args.file.data.last_update # None
    /\ call_result.value.last_update = None
    /\ call_result.value.symbol = "BANKNIFTY"

---------------------------------------------------------------------------
(* Backup claims, under SpecSync *)

\* the last run overwrote an existing series file
Overwrote == p_last.saved /\ p_last.csv_before.exists

\* C23: a save that overwrites an existing file first takes a backup that
\* holds the content before the overwrite; when taking the backup fails the
\* failure is not raised, the save still writes the file and the run
\* succeeds.
C23_BackupBeforeOverwrite ==
    /\ Overwrote => p_last.backup \in {"made", "failed"}
    /\ p_last.backup = "made" =>
            backups = Append(p_last.backups_before, p_last.csv_before.df)
    /\ p_last.backup = "failed" =>
            /\ p_last.saved
            /\ p_last.outcome = "success"
            /\ backups = p_last.backups_before
    /\ p_last.backup = "none" => backups = p_last.backups_before

\* the backup of an existing file failed and the file was overwritten with
\* a different series all the same
C23_Witness ==
    /\ Overwrote
    /\ p_last.backup = "failed"
    /\ p_last.outcome = "success"
    /\ csv_file.df # p_last.csv_before.df

---------------------------------------------------------------------------
(* Auto-fix claims, under SpecReport *)

\* validate_dataframe returned for a complete, non-empty series with auto_fix
AutoFixed == Validated /\ Complete(v_args.df) /\ v_args.auto_fix

\* C24: with auto_fix, validate_dataframe returns a series in ascending
\* timestamp order even when the input is unsorted.
C24_AutoFixSorts ==
    AutoFixed => is_monotonic_increasing(validated_df.rows)

\* the rows that are the first of their timestamp, in input order
RECURSIVE KeepFirst(_, _)
KeepFirst(rows, i) ==
    IF i > Len(rows) THEN <<>>
    ELSE IF FirstAtTs(rows, i) THEN <<rows[i]>> \o KeepFirst(rows, i + 1)
    ELSE KeepFirst(rows, i + 1)

\* the report has the stat with the value
HasStat(rep, key, value) ==
    \E i \in 1..Len(rep.stats) : rep.stats[i][1] = key /\ rep.stats[i][2] = value

\* the returned series has unique timestamps, keeps the first occurrence of
\* every timestamp, and the report records the number of rows dropped
FirstOccurrencesKept ==
    /\ ~has_duplicates(validated_df.rows)
    /\ validated_df.rows = KeepFirst(v_args.df.rows, 1)
    /\ HasStat(report, "rows_removed",
               Len(v_args.df.rows) - Len(KeepFirst(v_args.df.rows, 1)))

C26_ValuesUntouched ==
    v_pc = "validated" =>
        /\ \A i \in 1..Len(validated_df.rows) :
                \E j \in 1..Len(v_args.df.rows) :
                    validated_df.rows[i] = v_args.df.rows[j]
        /\ validated_df.cols = v_args.df.cols
        /\ ~v_args.auto_fix => validated_df = v_args.df

\* auto_fix dropped a duplicate and returned a row with a negative volume
\* as it was
C26_Witness ==
    /\ AutoFixed
    /\ has_duplicates(v_args.df.rows)
    /\ Len(validated_df.rows) < Len(v_args.df.rows)
    /\ validated_df.rows[1] = v_args.df.rows[1]
    /\ Lt(validated_df.rows[1].Volume, 0)

\* the input is empty or lacks one of Open, High, Low, Close, Volume
Unusable(df) ==
    IsEmpty(df) \/ ~({"Open", "High", "Low", "Close", "Volume"} \subseteq df.cols)

\* C27: for an input that is empty or lacks a required column,
\* validate_dataframe reports exactly one issue, of severity critical, runs
\* none of the duplicate, quality, gap and timezone checks (no warning, no
\* validated_rows stat, the series returned as it is) and returns
\* is_valid = false.
C27_CriticalShortCircuits ==
    v_pc = "validated" /\ Unusable(v_args.df) =>
        /\ Len(report.issues) = 1
        /\ report.issues[1].severity = "critical"
        /\ report.issues[1].category \in {"data", "structure"}
        /\ report.warnings = <<>>
        /\ \A i \in 1..Len(report.stats) :
                report.stats[i][1] \notin {"validated_rows", "rows_removed"}
        /\ validated_df = v_args.df
        /\ ~report.is_valid

\* a timezone-naive series without Volume and with a negative price, and
\* auto_fix on: one critical structure issue and nothing else
C27_Witness ==
    /\ v_pc = "validated"
    /\ "Volume" \notin v_args.df.cols
    /\ v_args.df.tz = "naive"
    /\ v_args.auto_fix
    /\ Len(v_args.df.rows) > 0
    /\ Lt(v_args.df.rows[1].Open, 0)
    /\ Len(report.issues) = 1
    /\ report.issues[1].category = "structure"
    /\ ~report.is_valid

GapsChecked == call_pc = "returned" /\ call_args.fn = "check_gaps"

\* check_gaps reported the step into row i (rows numbered from 1)
Reported(i) ==
    \E k \in 1..Len(call_result.value) : call_result.value[k].index = i - 1

\* the nominal grain in minutes
Grain(interval) ==
    CASE interval = "5m" -> 5
      [] interval = "1h" -> 60
      [] interval = "90m" -> 90
      [] interval = "1d" -> MinutesPerDay
      [] interval = "1wk" -> 7 * MinutesPerDay

\* C28: on a sub-daily series check_gaps never reports a step between rows
\* of different calendar days and reports a same-day step iff it exceeds
\* twice the grain; on a 1d series it reports a step iff it exceeds 4 days;
\* on any other daily-or-coarser grain iff it exceeds twice the grain.
C28_GapsByGrain ==
    GapsChecked =>
        LET rows == call_args.df.rows
            interval == call_args.interval
        IN  \A i \in 2..Len(rows) :
                LET delta == rows[i].ts - rows[i - 1].ts
                IN  Reported(i) <=>
                        IF Grain(interval) < MinutesPerDay
                        THEN /\ Date(rows[i - 1].ts) = Date(rows[i].ts)
                             /\ delta > 2 * Grain(interval)
                        ELSE IF interval = "1d" THEN delta > 4 * MinutesPerDay
                        ELSE delta > 2 * Grain(interval)

\* exactly one expected sample is missing between rows i - 1 and i of a
\* sub-daily series, both on one day
OneSampleMissing(rows, interval, i) ==
    /\ Grain(interval) < MinutesPerDay
    /\ Date(rows[i - 1].ts) = Date(rows[i].ts)
    /\ rows[i].ts - rows[i - 1].ts = 2 * Grain(interval)

\* C29: check_gaps reports at least one gap for a sub-daily series in which
\* one expected sample is missing within a single trading day (5m rows at
\* 09:15, 09:20 and 09:30).
C29_MissingSampleReported ==
    GapsChecked =>
        LET rows == call_args.df.rows
        IN  (\E i \in 2..Len(rows) : OneSampleMissing(rows, call_args.interval, i))
                => Len(call_result.value) > 0

\* some row has a null in a required price field
NullPrice(df) ==
    \E i \in 1..Len(df.rows), c \in {"Open", "High", "Low", "Close"} :
        IsNull(df.rows[i][c])

\* the report has an issue for null values
NullIssue(rep) ==
    \E i \in 1..Len(rep.issues) : rep.issues[i].message[1] = "Null values in"

\* C30: validate_dataframe on a series with a null value in a required price
\* field returns is_valid = false and reports an issue for the null values.
C30_NullPriceInvalidates ==
    Validated /\ Complete(v_args.df) /\ NullPrice(v_args.df) =>
        ~report.is_valid /\ NullIssue(report)

\* the number of calls of func that raised
Failures == Cardinality({i \in 1..Len(r_outcomes) : r_outcomes[i] = "fail"})

RECURSIVE Pow(_, _)
Pow(b, n) == IF n = 0 THEN 1 ELSE b * Pow(b, n - 1)

\* min(initial_delay * backoff_factor^(i-1), max_delay)
ScheduledWait(args, i) ==
    LET grown == args.initial_delay * Pow(args.backoff_factor, i - 1)
    IN  IF grown <= args.max_delay THEN grown ELSE args.max_delay

\* C31 as stated: every failed attempt, the last one included, is followed
\* by a wait.
C31_EveryFailureWaits ==
    r_pc # "idle" => Len(r_sleeps) = Failures

\* C31: every failed attempt but the max_retries-th is followed by a wait;
\* the wait after the i-th failed attempt is
\* min(initial_delay * backoff_factor^(i-1), max_delay), so the waits never
\* exceed max_delay, never decrease (backoff_factor >= 1) and depend on the
\* arguments only.
C31_WaitsFollowSchedule ==
    r_pc # "idle" =>
        /\ Len(r_sleeps) = IF Failures > 0 /\ Failures >= r_args.max_retries
                           THEN Failures - 1 ELSE Failures
        /\ \A i \in 1..Len(r_sleeps) :
                /\ r_sleeps[i] = ScheduledWait(r_args, i)
                /\ r_sleeps[i] <= r_args.max_delay
                /\ i > 1 => r_sleeps[i - 1] <= r_sleeps[i]

\* initial_delay 2, backoff_factor 2, max_delay 3: three failures were
\* followed by the waits 2, 3, 3 (4 and 8 capped)
C31_Witness ==
    /\ r_pc = "loop"
    /\ r_args.initial_delay = 2 /\ r_args.backoff_factor = 2 /\ r_args.max_delay = 3
    /\ r_outcomes = <<"fail", "fail", "fail">>
    /\ r_sleeps = <<2, 3, 3>>

\* manager m is the only RetryManager on the log directory
Alone(m) == constructed[m] /\ \A other \in Managers \ {m} : ~constructed[other]

Before(list, entry, other) ==
    \E i, j \in 1..Len(list) : i < j /\ list[i] = entry /\ list[j] = other

MergedAndSaved ==
    /\ p_last.kind \in {"update", "fill_gap"}
    /\ p_last.outcome = "success"
    /\ p_last.saved

\* C34: within one synchronization attempt the phases run in the order fetch,
\* validate, merge, persist, metadata update: the validator is given the
\* incoming series as fetched, the series saved is the merge of the existing
\* series with the validated incoming one, and the metadata file is written
\* only in a run that saved the series.
C34_ValidateThenMerge ==
    /\ MergedAndSaved =>
          LET out == validate_dataframe(p_last.fetched, TheInterval, TRUE)
          IN  /\ p_last.report = out.report
              /\ csv_file.df = merge_data(load_existing_data(p_last.csv_before), out.df)
    /\ p_last.written => p_last.saved

\* the series the last run's pipeline hands to save_data
SeriesToSave ==
    LET incoming == p_last.fetched
        existing == load_existing_data(p_last.csv_before)
    IN  IF p_last.kind = "download"
        THEN validate_dataframe(incoming, TheInterval, TRUE).df
        ELSE validate_dataframe(merge_data(existing, incoming), TheInterval, TRUE).df

\* the last run saved the series, was not killed, and left the metadata
\* file as it was: _save_metadata failed
MetadataNotSaved ==
    /\ p_last.kind \in SyncKinds
    /\ p_last.saved
    /\ p_last.outcome # "crashed"
    /\ meta_file = p_last.meta_before

\* C35: when writing the metadata fails after the series file was saved,
\* update_metadata returns False and raises nothing (the run ends as a
\* success with no ledger entry), the series file holds the newly saved
\* series, and the metadata file is as it was.
C35_MetadataFailureKeepsSeries ==
    MetadataNotSaved =>
        /\ p_last.updated = "false"
        /\ p_last.outcome = "success"
        /\ Len(failure_log.content) = p_last.ledger_before
        /\ csv_file = [exists |-> TRUE, df |-> SeriesToSave]

\* an update of an entity downloaded before: the series file was rewritten
\* and the metadata write failed
C35_Witness ==
    /\ p_last.kind = "update"
    /\ p_last.updated = "false"
    /\ p_last.csv_before.exists
    /\ p_last.backup = "made"
    /\ csv_file.exists
    /\ p_last.meta_before.state = "ok"
    /\ meta_file = p_last.meta_before

\* C36: any two consecutive passes of the rate-limiter gate of one
\* DataFetcher are at least rate_limit_delay apart, also when several workers
\* call fetch_data at once.
C36_DispatchSpaced ==
    \A i \in 2..Len(f_passed) : f_passed[i] - f_passed[i - 1] >= rate_limit_delay

\* the metadata file records the series file's row count and first and last
\* timestamps
MetadataAgrees ==
    /\ meta_file.state = "ok"
    /\ csv_file.exists
    /\ meta_file.data.total_rows = Len(csv_file.df.rows)
    /\ meta_file.data.date_range.start = MinTs(csv_file.df.rows)
    /\ meta_file.data.date_range.end = MaxTsOf(csv_file.df.rows)

C38_TimestampsAreUnion ==
    (MergeReturned /\ ~IncomingEmpty) =>
        /\ TsSet(merged_df.rows) = TsSet(existing_df.rows) \cup TsSet(new_df.rows)
        /\ \A i \in 1..Len(merged_df.rows) :
              merged_df.rows[i].ts \notin TsSet(new_df.rows) =>
                  \E j \in 1..Len(existing_df.rows) :
                      merged_df.rows[i] = existing_df.rows[j]

\* the overlap scenario has been merged: day 1 is only in the existing series
\* and comes out as stored, days 2 and 3 come from the incoming series
C38_Witness ==
    /\ MergeReturned
    /\ existing_df = ScenarioExisting
    /\ new_df = ScenarioIncoming
    /\ TsSet(merged_df.rows) = {1, 2, 3}
    /\ merged_df.rows[1] = existing_df.rows[1]

RetryFetchReturned == call_pc = "returned" /\ call_args.fn = "retry_fetch"

\* C39: one fetch of update_symbol ends after at most 3 x fetcher.max_retries
\* provider calls; it ends with RetryError only after 3 x fetcher.max_retries
\* calls that all failed, and it returns on the first call that succeeds.
C39_ProviderCallsBounded ==
    RetryFetchReturned =>
        LET calls == call_result.value.calls
            answers == call_args.answers
        IN  /\ calls <= 3 * call_args.max_retries
            /\ \A k \in 1..(calls - 1) : answers[k] = "fail"
            /\ call_result.value.outcome = "RetryError" =>
                  /\ calls = 3 * call_args.max_retries
                  /\ \A k \in 1..calls : answers[k] = "fail"
            /\ call_result.value.outcome = "returned" => answers[calls] = "ok"

\* a DataFetcher with max_retries = 3 whose provider failed nine times: the
\* fetch ended with RetryError after nine calls
C39_Witness ==
    /\ RetryFetchReturned
    /\ call_args.max_retries = 3
    /\ call_result.value.outcome = "RetryError"
    /\ call_result.value.calls = 9

===========================================================================
